---- MODULE Spec2Model ----
(***************************************************************************)
(* The feature walker of cargo_metadata (src/src/visit.rs): FeatureWalker  *)
(* walks the selected features of a package and their dependencies and     *)
(* drives a FeatureVisitor.  The recursion of the walker is modelled with  *)
(* an explicit call stack; every visitor callback, function entry and      *)
(* function return is recorded in the history variable trace.              *)
(*                                                                         *)
(* Strings are sequences of one-character strings, so that the parsing of  *)
(* a requirement token (FeatureValue::new) is computed, not assumed.       *)
(***************************************************************************)
EXTENDS Integers, Sequences, FiniteSets, TLC

\* Longest feature_names list handed to walk_package_features.
MaxNames == 2

\* Deepest call stack the model follows (the code has no such limit).
MaxDepth == 8

----------------------------------------------------------------------------
(* Option<T> is a sequence of length 0 (None) or 1 (Some). *)

None == <<>>

Some(x) == <<x>>

(* Result<(), E> and Result<bool, E>.  Every value carries the same fields. *)

NoErr == [kind |-> "", name |-> <<>>]

Ok == [tag |-> "Ok", val |-> TRUE, err |-> NoErr]

OkBool(b) == [tag |-> "Ok", val |-> b, err |-> NoErr]

Err(e) == [tag |-> "Err", val |-> FALSE, err |-> e]

NoResult == [tag |-> "none", val |-> FALSE, err |-> NoErr]

IsErr(r) == r.tag = "Err"

----------------------------------------------------------------------------
(* FeatureValue: the three shapes of a requirement token. *)

Feature(name) ==
    [kind |-> "Feature", name |-> name, dep_feature |-> <<>>, weak |-> FALSE]

Dep(dep_name) ==
    [kind |-> "Dep", name |-> dep_name, dep_feature |-> <<>>, weak |-> FALSE]

DepFeature(dep_name, dep_feature, weak) ==
    [kind |-> "DepFeature", name |-> dep_name, dep_feature |-> dep_feature,
     weak |-> weak]

\* Position of the first occurrence of character c in s, 0 when absent.
Find(s, c) ==
    IF \E i \in 1..Len(s) : s[i] = c
    THEN CHOOSE i \in 1..Len(s) : s[i] = c /\ \A j \in 1..(i-1) : s[j] # c
    ELSE 0

StartsWith(s, p) == Len(s) >= Len(p) /\ SubSeq(s, 1, Len(p)) = p

EndsWith(s, c) == Len(s) >= 1 /\ s[Len(s)] = c

DepPrefix == <<"d", "e", "p", ":">>

\* A parse that leaves the `?` of a weak reference on the dependency's name.
FeatureValue_new_weak_kept(s) ==
    LET pos == Find(s, "/") IN
    IF pos # 0
    THEN LET left == SubSeq(s, 1, pos - 1)
             right == SubSeq(s, pos + 1, Len(s))
         IN DepFeature(left, right, EndsWith(left, "?"))
    ELSE IF StartsWith(s, DepPrefix)
         THEN Dep(SubSeq(s, Len(DepPrefix) + 1, Len(s)))
         ELSE Feature(s)

\* The parse of one requirement token.
FeatureValue_new(s) ==
    LET pos == Find(s, "/") IN
    IF pos # 0
    THEN LET left == SubSeq(s, 1, pos - 1)
             right == SubSeq(s, pos + 1, Len(s))
         IN IF EndsWith(left, "?")
            THEN DepFeature(SubSeq(left, 1, Len(left) - 1), right, TRUE)
            ELSE DepFeature(left, right, FALSE)
    ELSE IF StartsWith(s, DepPrefix)
         THEN Dep(SubSeq(s, Len(DepPrefix) + 1, Len(s)))
         ELSE Feature(s)

----------------------------------------------------------------------------
(* Names and requirement tokens of the metadata documents. *)

default == <<"d">>

feat1 == <<"1">>

bitflags == <<"b">>

optdep == <<"o">>

opt_feat_strong == <<"s">>

opt_feat_weak == <<"w">>

feat == <<"f">>

extra == <<"g">>

missing == <<"m">>

undeclared == <<"u">>

unknown == <<"x">>

renamed == <<"n">>

crate_q == <<"q">>

crate_z == <<"z">>

root_name == <<"a">>

\* The strings of one requirement list, parsed as Package.features holds them.
Requires(tokens) == [i \in 1..Len(tokens) |-> FeatureValue_new(tokens[i])]

\* A dependency record: underlying crate name, optional rename, and the
\* feature names the manifest requests on it.
Dependency(name, rename, features) ==
    [name |-> name, rename |-> rename, features |-> features]

\* The root package of the documents: the features of tests/all as the tests
\* of the walker expect them, and requirement lists that reference an
\* undeclared dependency, an undeclared feature of a dependency and a
\* renamed dependency.
RootPackage ==
    [name |-> root_name,
     id |-> "all",
     features |->
        (default :> Requires(<<feat1, bitflags>>))
     @@ (feat1 :> Requires(<<>>))
     @@ (bitflags :> Requires(<<DepPrefix \o bitflags>>))
     @@ (optdep :> Requires(<<DepPrefix \o optdep>>))
     @@ (opt_feat_strong :> Requires(<<optdep \o <<"/">> \o feat>>))
     @@ (opt_feat_weak :> Requires(<<optdep \o <<"?", "/">> \o feat>>))
     @@ (missing :> Requires(<<DepPrefix \o crate_z,
                               crate_z \o <<"/">> \o feat,
                               feat1>>))
     @@ (undeclared :> Requires(<<optdep \o <<"/">> \o unknown,
                                  DepPrefix \o renamed,
                                  unknown>>)),
     dependencies |->
        << Dependency(bitflags, None, <<>>),
           Dependency(optdep, None, <<extra, unknown>>),
           Dependency(crate_q, Some(renamed), <<>>) >>]

\* A package whose requirement lists hold plain feature names only.
BitflagsPackage ==
    [name |-> bitflags,
     id |-> "bitflags",
     features |->
        (default :> Requires(<<feat1>>))
     @@ (feat1 :> Requires(<<>>)),
     dependencies |-> <<>>]

OptdepPackage ==
    [name |-> optdep,
     id |-> "optdep",
     features |->
        (feat :> Requires(<<unknown>>))
     @@ (extra :> Requires(<<>>)),
     dependencies |-> <<>>]

\* The metadata documents a walker is built over: the optional dependency
\* not activated (its package is absent), and activated.
Documents ==
    { [packages |-> <<RootPackage, BitflagsPackage>>],
      [packages |-> <<RootPackage, BitflagsPackage, OptdepPackage>>] }

\* The names a caller passes in feature_names.
FeatureNameInputs ==
    { default, optdep, opt_feat_strong, opt_feat_weak, missing, undeclared,
      feat }

\* The sequences over S of length at most n.
SeqsUpTo(S, n) == UNION { [1..k -> S] : k \in 0..n }


----------------------------------------------------------------------------
(* The walker. *)

RECURSIVE collect(_, _)

\* `.collect()` into a BTreeMap: the map holding the first n of the pairs
\* (package.name, package), each inserted in turn; inserting under a key the
\* map already holds replaces the value.
collect(packages, n) ==
    IF n = 0
    THEN << >>
    ELSE LET map == collect(packages, n - 1)
         IN [name \in DOMAIN map \cup { packages[n].name } |->
                IF name = packages[n].name THEN n ELSE map[name]]

\* A map built with `entry(name).or_insert(package)`: the first package of a
\* name stays.
FeatureWalker_new_first_stays(md) ==
    [n \in { md.packages[i].name : i \in DOMAIN md.packages } |->
        CHOOSE i \in DOMAIN md.packages :
            /\ md.packages[i].name = n
            /\ \A j \in DOMAIN md.packages : md.packages[j].name = n => i <= j]

\* FeatureWalker::new: the packages collected into a map by name.
FeatureWalker_new(md) == collect(md.packages, Len(md.packages))

\* The name a dependency goes by in the manifest of the package declaring it.
LocalName(dependency) ==
    IF dependency.rename = None THEN dependency.name ELSE dependency.rename[1]

\* Package::get_dependency: the first declared dependency of that local name.
get_dependency(package, dep_name) ==
    LET hits == { i \in DOMAIN package.dependencies :
                    LocalName(package.dependencies[i]) = dep_name }
    IN IF hits = {}
       THEN None
       ELSE Some(package.dependencies[CHOOSE i \in hits : \A j \in hits : i <= j])

NoDependency == Dependency(<<>>, None, <<>>)

\* No FeatureValue: the activation was not called for a requirement.
NoValue == [kind |-> "", name |-> <<>>, dep_feature |-> <<>>, weak |-> FALSE]

\* One activation of a function of the walker.  package and dep_package are
\* positions in metadata.packages (the &Package references of the code).
\* value, by and by_package note the call that made it: the FeatureValue it
\* was made for, and the function and package of the caller.
Frame(fn, package, name, dep_feature, weak, feature_names) ==
    [fn |-> fn, pc |-> "entry", package |-> package, name |-> name,
     dep_feature |-> dep_feature, weak |-> weak,
     feature_names |-> feature_names, required_features |-> << >>, i |-> 1,
     dependency |-> NoDependency, dep_package |-> 0,
     value |-> NoValue, by |-> "", by_package |-> ""]

\* A dispatch with the first two match arms mixed up.
walk_feature_value_arms_swapped(package, feature_value) ==
    CASE feature_value.kind = "Feature" ->
            Frame("walk_dep", package, feature_value.name, <<>>, FALSE, <<>>)
      [] feature_value.kind = "Dep" ->
            Frame("walk_feature", package, feature_value.name, <<>>, FALSE, <<>>)
      [] feature_value.kind = "DepFeature" ->
            Frame("walk_dep_feature", package, feature_value.name,
                  feature_value.dep_feature, feature_value.weak, <<>>)

\* A dispatch that walks a strong `dep/feat` reference as the activation of
\* the dependency, `dep:dep`.
walk_feature_value_strong_as_dep(package, feature_value) ==
    CASE feature_value.kind = "Feature" ->
            Frame("walk_feature", package, feature_value.name, <<>>, FALSE, <<>>)
      [] feature_value.kind = "Dep" ->
            Frame("walk_dep", package, feature_value.name, <<>>, FALSE, <<>>)
      [] feature_value.kind = "DepFeature" ->
            IF feature_value.weak
            THEN Frame("walk_dep_feature", package, feature_value.name,
                       feature_value.dep_feature, feature_value.weak, <<>>)
            ELSE Frame("walk_dep", package, feature_value.name, <<>>, FALSE, <<>>)

\* walk_feature_value: the call a FeatureValue is dispatched to.
walk_feature_value(package, feature_value) ==
    CASE feature_value.kind = "Feature" ->
            Frame("walk_feature", package, feature_value.name, <<>>, FALSE, <<>>)
      [] feature_value.kind = "Dep" ->
            Frame("walk_dep", package, feature_value.name, <<>>, FALSE, <<>>)
      [] feature_value.kind = "DepFeature" ->
            Frame("walk_dep_feature", package, feature_value.name,
                  feature_value.dep_feature, feature_value.weak, <<>>)

\* A walker whose `?` were dropped: an error of a callee is not returned.
PropagatesNever(r) == FALSE

\* The `?` operator: an Err returns from the enclosing function at once ...
Propagates(r) == IsErr(r)

\* A `?` that wraps the error in one of the walker's own.
FromResidualWrapped(r) == Err([kind |-> "walk", name |-> r.err.name])

\* ... with the error value it holds.
FromResidual(r) == Err(r.err)

\* A walker that expands whatever the callback answered.
DeclinesNever(r) == FALSE

\* The `!` forgotten: `if visitor.visit_...(...)? { return Ok(()) }`.
DeclinesInverted(r) == r.val

\* `if !visitor.visit_...(...)? { return Ok(()) }`: the callback answered
\* Ok(false).
Declines(r) == ~r.val

\* A lookup that yields an empty requirement list for an unknown feature.
features_get_or_default(package, feature_name) ==
    IF feature_name \in DOMAIN package.features
    THEN Some(package.features[feature_name])
    ELSE Some(<< >>)

\* package.features.get(feature_name)
features_get(package, feature_name) ==
    IF feature_name \in DOMAIN package.features
    THEN Some(package.features[feature_name])
    ELSE None

\* The index looked up by the name the dependency goes by in the manifest.
package_name_local(dependency) == LocalName(dependency)

\* `let package_name = &dependency.name`
package_name(dependency) == dependency.name

\* A build with the assertions compiled out.
AssertIsFeature_off(feature_value) == TRUE

\* An assertion with its condition negated.
AssertIsFeature_negated(feature_value) == feature_value.kind # "Feature"

\* assert!(matches!(dep_feature, FeatureValue::Feature(_)))
AssertIsFeature(feature_value) == feature_value.kind = "Feature"

----------------------------------------------------------------------------
(* State. *)

VARIABLES
    metadata,          \* the metadata document the walker borrows
    packages_by_name,  \* FeatureWalker.packages_by_name
    visitor,           \* the visitor handed to the walk
    features,          \* TransitiveFeatureCollector.features
    package_arg,       \* the package argument of walk_package_features
    names_arg,         \* the feature_names argument of walk_package_features
    stack,             \* the activations of the walker's functions, outermost first
    ret,               \* the value the last completed call returned to its caller
    result,            \* what walk_package_features returned
    phase,             \* "constructed", "walking", "returned" or "panicked"
    trace,             \* history: every entry, callback and return so far
    current,           \* which walk the variables above are those of
    walks,             \* the walks that are not running now, as they were left
    input,             \* the string handed to a parser
    output             \* what the parser returned

vars == << metadata, packages_by_name, visitor, features, package_arg,
           names_arg, stack, ret, result, phase, trace, current, walks,
           input, output >>

\* What a step of the running walk has no access to: the other walks, and
\* the strings parsed elsewhere.
others == << current, walks, input, output >>

\* A walker that takes the package it is walking out of its index.
SharedBorrowConsumed ==
    /\ metadata' = metadata
    /\ packages_by_name' =
          [n \in DOMAIN packages_by_name
                   \ { metadata.packages[stack[Len(stack)].package].name } |->
              packages_by_name[n]]

\* `&self`, `metadata: &'a Metadata`, `package: &Package`: the walker's
\* functions hold the document and the index by shared reference.
SharedBorrow == UNCHANGED << metadata, packages_by_name >>

Top == stack[Len(stack)]

Pop == SubSeq(stack, 1, Len(stack) - 1)

PackageOf(frame) == metadata.packages[frame.package]

----------------------------------------------------------------------------
(* The visitor.  TransitiveFeatureCollector is the visitor of                *)
(* tests/visitor.rs; "any" stands for an arbitrary implementation of the     *)
(* FeatureVisitor trait, whose callbacks may return any value of their type. *)

Errors == { [kind |-> "E1", name |-> <<>>], [kind |-> "E2", name |-> <<>>] }

Visitors ==
    { [kind |-> "TransitiveFeatureCollector", err_on_missing |-> b] :
        b \in BOOLEAN }
    \cup { [kind |-> "any", err_on_missing |-> FALSE] }

IsCollector(v) == v.kind = "TransitiveFeatureCollector"

\* A visitor that keeps the (package, feature) pairs visit_feature was called
\* with and answers Ok(false) for a pair it has seen; it lets everything
\* else pass.
VisitOnce == [kind |-> "VisitOnce", err_on_missing |-> FALSE]

IsVisitOnce(v) == v.kind = "VisitOnce"

\* The values visit_missing_dependency(dep_name) may return.
visit_missing_dependency(v, dep_name) ==
    IF IsCollector(v)
    THEN IF v.err_on_missing
         THEN { Err([kind |-> "missing dependency", name |-> dep_name]) }
         ELSE { Ok }
    ELSE IF IsVisitOnce(v)
         THEN { Ok }
         ELSE { Ok } \cup { Err(e) : e \in Errors }

\* The values visit_missing_package(pkg_name) may return.
visit_missing_package(v, pkg_name) ==
    IF IsCollector(v)
    THEN IF v.err_on_missing
         THEN { Err([kind |-> "missing package", name |-> pkg_name]) }
         ELSE { Ok }
    ELSE IF IsVisitOnce(v)
         THEN { Ok }
         ELSE { Ok } \cup { Err(e) : e \in Errors }

\* The values visit_feature, visit_dep and visit_dep_feature may return:
\* the collector records and continues, the trait allows any Result<bool, E>.
visit_feature(v) ==
    IF IsCollector(v)
    THEN { OkBool(TRUE) }
    ELSE IF IsVisitOnce(v)
         THEN { OkBool(Feature(Top.name) \notin features[PackageOf(Top).id]) }
         ELSE { OkBool(TRUE), OkBool(FALSE) } \cup { Err(e) : e \in Errors }

visit_dep(v) ==
    IF IsCollector(v) \/ IsVisitOnce(v)
    THEN { OkBool(TRUE) }
    ELSE { OkBool(TRUE), OkBool(FALSE) } \cup { Err(e) : e \in Errors }

visit_dep_feature(v) == visit_dep(v)

\* A collector that keeps the features and drops the tokens that name a
\* dependency.
collect_feature_value_features_only(v, fs, package_id, feature_value) ==
    IF feature_value.kind = "Feature" /\ (IsCollector(v) \/ IsVisitOnce(v))
    THEN [fs EXCEPT ![package_id] = @ \cup {feature_value}]
    ELSE fs

\* TransitiveFeatureCollector::collect_feature_value; a package id is a key of
\* the collector's map exactly when its set is not empty.
collect_feature_value(v, fs, package_id, feature_value) ==
    IF IsCollector(v) \/ (IsVisitOnce(v) /\ feature_value.kind = "Feature")
    THEN [fs EXCEPT ![package_id] = @ \cup {feature_value}]
    ELSE fs

PackageIds == { "all", "bitflags", "optdep" }

Event(ev, what, package_id, name, dep_feature, weak, r, depth) ==
    [ev |-> ev, what |-> what, package |-> package_id, name |-> name,
     dep_feature |-> dep_feature, weak |-> weak, ret |-> r, depth |-> depth,
     value |-> NoValue, by |-> "", by_package |-> ""]

\* The event of an activation's entry or return.
FrameEvent(ev, frame, r, depth) ==
    [Event(ev, frame.fn, metadata.packages[frame.package].id, frame.name,
           frame.dep_feature, frame.weak, r, depth)
       EXCEPT !.value = frame.value, !.by = frame.by,
              !.by_package = frame.by_package]

\* A callback made by the top activation, and what it returned.
Visit(what, package_id, name, dep_feature, weak, r) ==
    Event("visit", what, package_id, name, dep_feature, weak, r, Len(stack))

Enter(frame, depth) == FrameEvent("enter", frame, NoResult, depth)

Exit(frame, r, depth) == FrameEvent("exit", frame, r, depth)

\* The top activation returns r to its caller, after the callbacks evs.
Returns(r, evs) ==
    /\ stack' = Pop
    /\ ret' = r
    /\ trace' = trace \o evs \o << Exit(Top, r, Len(stack)) >>
    /\ IF Len(stack) = 1
       THEN phase' = "returned" /\ result' = r
       ELSE UNCHANGED << phase, result >>

\* The top activation goes on as frame, after the callbacks evs.
Continues(frame, evs) ==
    /\ stack' = [stack EXCEPT ![Len(stack)] = frame]
    /\ ret' = NoResult
    /\ trace' = trace \o evs
    /\ UNCHANGED << phase, result >>

\* The top activation goes on as frame and calls callee for feature_value.
Calls(frame, callee, feature_value) ==
    LET called == [callee EXCEPT !.value = feature_value, !.by = Top.fn,
                                 !.by_package = PackageOf(Top).id]
    IN /\ Len(stack) < MaxDepth
       /\ stack' = Append([stack EXCEPT ![Len(stack)] = frame], called)
       /\ ret' = NoResult
       /\ trace' = Append(trace, Enter(called, Len(stack) + 1))
       /\ UNCHANGED << phase, result >>

\* A failed assertion unwinds the whole walk; walk_package_features returns
\* nothing.
Panics ==
    /\ phase' = "panicked"
    /\ stack' = << >>
    /\ ret' = NoResult
    /\ UNCHANGED << result, trace >>

Running(fn, pc) ==
    /\ phase = "walking"
    /\ stack # << >>
    /\ Top.fn = fn
    /\ Top.pc = pc

Init ==
    /\ metadata \in Documents
    /\ packages_by_name = FeatureWalker_new(metadata)
    /\ visitor \in Visitors
    /\ features = [id \in PackageIds |-> {}]
    /\ package_arg = 0
    /\ names_arg = << >>
    /\ stack = << >>
    /\ ret = NoResult
    /\ result = NoResult
    /\ phase = "constructed"
    /\ trace = << >>
    /\ current = 1
    /\ walks = << >>
    /\ input = << >>
    /\ output = NoValue

\* walk_package_features(package, feature_names, visitor) is entered.
Invoke(package, feature_names) ==
    LET frame == Frame("walk_package_features", package, << >>, << >>,
                       FALSE, feature_names)
    IN /\ phase = "constructed"
       /\ package_arg' = package
       /\ names_arg' = feature_names
       /\ stack' = << frame >>
       /\ trace' = << Enter(frame, 1) >>
       /\ phase' = "walking"
       /\ UNCHANGED << metadata, packages_by_name, visitor, features, ret,
                       result, others >>

\* A caller invokes walk_package_features(package, feature_names, visitor).
Call ==
    /\ phase = "constructed"
    /\ \E package \in DOMAIN metadata.packages :
       \E feature_names \in SeqsUpTo(FeatureNameInputs, MaxNames) :
          Invoke(package, feature_names)

\* A loop that does not end when the names are exhausted.
walk_package_features_spins ==
    /\ Running("walk_package_features", "entry")
    /\ IF Propagates(ret)
       THEN Returns(FromResidual(ret), << >>)
       ELSE IF Top.i > Len(Top.feature_names)
            THEN UNCHANGED << stack, ret, trace, phase, result >>
            ELSE Calls([Top EXCEPT !.i = @ + 1],
                       Frame("walk_feature", Top.package,
                             Top.feature_names[Top.i], << >>, FALSE, << >>),
                       Feature(Top.feature_names[Top.i]))
    /\ SharedBorrow
    /\ UNCHANGED << visitor, features, package_arg, names_arg, others >>

\* A loop whose body returns: `return self.walk_feature(..)`.  Only the first
\* name is walked.
walk_package_features_returns_in_loop ==
    /\ Running("walk_package_features", "entry")
    /\ IF Propagates(ret)
       THEN Returns(FromResidual(ret), << >>)
       ELSE IF Top.i > Len(Top.feature_names) \/ Top.i > 1
            THEN Returns(Ok, << >>)
            ELSE Calls([Top EXCEPT !.i = @ + 1],
                       Frame("walk_feature", Top.package,
                             Top.feature_names[Top.i], << >>, FALSE, << >>),
                       Feature(Top.feature_names[Top.i]))
    /\ SharedBorrow
    /\ UNCHANGED << visitor, features, package_arg, names_arg, others >>

\* A loop over feature_names kept in a container without an order of its
\* own: it yields the names first to last or last to first.
walk_package_features_any_order ==
    /\ Running("walk_package_features", "entry")
    /\ IF Propagates(ret)
       THEN Returns(FromResidual(ret), << >>)
       ELSE IF Top.i > Len(Top.feature_names)
            THEN Returns(Ok, << >>)
            ELSE \E j \in { Top.i, Len(Top.feature_names) + 1 - Top.i } :
                   Calls([Top EXCEPT !.i = @ + 1],
                         Frame("walk_feature", Top.package,
                               Top.feature_names[j], << >>, FALSE, << >>),
                         Feature(Top.feature_names[j]))
    /\ SharedBorrow
    /\ UNCHANGED << visitor, features, package_arg, names_arg, others >>

\* visit.rs 100-104: the loop over feature_names.
walk_package_features ==
    /\ Running("walk_package_features", "entry")
    /\ IF Propagates(ret)
       THEN Returns(FromResidual(ret), << >>)
       ELSE IF Top.i > Len(Top.feature_names)
            THEN Returns(Ok, << >>)
            ELSE Calls([Top EXCEPT !.i = @ + 1],
                       Frame("walk_feature", Top.package,
                             Top.feature_names[Top.i], << >>, FALSE, << >>),
                       Feature(Top.feature_names[Top.i]))
    /\ SharedBorrow
    /\ UNCHANGED << visitor, features, package_arg, names_arg, others >>

\* A walker with a cycle guard: a (package, feature) pair it has visited
\* before is not walked again.
walk_feature_guarded ==
    /\ Running("walk_feature", "entry")
    /\ LET package == PackageOf(Top)
           feature_name == Top.name
           required_features == features_get(package, feature_name)
           seen == \E k \in DOMAIN trace :
                      /\ trace[k].ev = "visit"
                      /\ trace[k].what = "visit_feature"
                      /\ trace[k].package = package.id
                      /\ trace[k].name = feature_name
       IN IF required_features = None \/ seen
          THEN Returns(Ok, << >>) /\ UNCHANGED features
          ELSE \E r \in visit_feature(visitor) :
                 LET ev == Visit("visit_feature", package.id, feature_name,
                                 << >>, FALSE, r)
                 IN /\ features' = collect_feature_value(visitor, features,
                                       package.id, Feature(feature_name))
                    /\ IF Propagates(r)
                       THEN Returns(FromResidual(r), << ev >>)
                       ELSE IF Declines(r)
                            THEN Returns(Ok, << ev >>)
                            ELSE Continues(
                                   [Top EXCEPT !.pc = "loop", !.i = 1,
                                      !.required_features = required_features[1]],
                                   << ev >>)
    /\ SharedBorrow
    /\ UNCHANGED << visitor, package_arg, names_arg, others >>

\* visit.rs 116-122: the lookup of the feature and the visit_feature callback.
walk_feature ==
    /\ Running("walk_feature", "entry")
    /\ LET package == PackageOf(Top)
           feature_name == Top.name
           required_features == features_get(package, feature_name)
       IN IF required_features = None
          THEN Returns(Ok, << >>) /\ UNCHANGED features
          ELSE \E r \in visit_feature(visitor) :
                 LET ev == Visit("visit_feature", package.id, feature_name,
                                 << >>, FALSE, r)
                 IN /\ features' = collect_feature_value(visitor, features,
                                       package.id, Feature(feature_name))
                    /\ IF Propagates(r)
                       THEN Returns(FromResidual(r), << ev >>)
                       ELSE IF Declines(r)
                            THEN Returns(Ok, << ev >>)
                            ELSE Continues(
                                   [Top EXCEPT !.pc = "loop", !.i = 1,
                                      !.required_features = required_features[1]],
                                   << ev >>)
    /\ SharedBorrow
    /\ UNCHANGED << visitor, package_arg, names_arg, others >>

\* A loop over the requirement list from its last token to its first.
walk_feature_loop_reversed ==
    /\ Running("walk_feature", "loop")
    /\ IF Propagates(ret)
       THEN Returns(FromResidual(ret), << >>)
       ELSE IF Top.i > Len(Top.required_features)
            THEN Returns(Ok, << >>)
            ELSE LET j == Len(Top.required_features) + 1 - Top.i
                 IN Calls([Top EXCEPT !.i = @ + 1],
                          walk_feature_value(Top.package,
                                             Top.required_features[j]),
                          Top.required_features[j])
    /\ SharedBorrow
    /\ UNCHANGED << visitor, features, package_arg, names_arg, others >>

\* A loop that leaves the requirement list at the first token reported
\* missing.
walk_feature_loop_stops_at_missing ==
    /\ Running("walk_feature", "loop")
    /\ IF Propagates(ret)
       THEN Returns(FromResidual(ret), << >>)
       ELSE IF \/ Top.i > Len(Top.required_features)
               \/ /\ Len(trace) >= 2
                  /\ trace[Len(trace)].ev = "exit"
                  /\ trace[Len(trace) - 1].what
                        \in { "visit_missing_dependency",
                              "visit_missing_package" }
            THEN Returns(Ok, << >>)
            ELSE Calls([Top EXCEPT !.i = @ + 1],
                       walk_feature_value(Top.package,
                                          Top.required_features[Top.i]),
                       Top.required_features[Top.i])
    /\ SharedBorrow
    /\ UNCHANGED << visitor, features, package_arg, names_arg, others >>

\* visit.rs 124-128: the loop over the feature's requirement list.
walk_feature_loop ==
    /\ Running("walk_feature", "loop")
    /\ IF Propagates(ret)
       THEN Returns(FromResidual(ret), << >>)
       ELSE IF Top.i > Len(Top.required_features)
            THEN Returns(Ok, << >>)
            ELSE Calls([Top EXCEPT !.i = @ + 1],
                       walk_feature_value(Top.package,
                                          Top.required_features[Top.i]),
                       Top.required_features[Top.i])
    /\ SharedBorrow
    /\ UNCHANGED << visitor, features, package_arg, names_arg, others >>

\* A walker that drops what visit_missing_dependency returned.
MissingDependencyIgnored(dep_name) ==
    /\ \E r \in visit_missing_dependency(visitor, dep_name) :
         Returns(Ok, << Visit("visit_missing_dependency", "", dep_name,
                              << >>, FALSE, r) >>)
    /\ UNCHANGED features

\* visit.rs 141, 176: `return visitor.visit_missing_dependency(dep_name)`.
MissingDependency(dep_name) ==
    /\ \E r \in visit_missing_dependency(visitor, dep_name) :
         Returns(r, << Visit("visit_missing_dependency", "", dep_name,
                             << >>, FALSE, r) >>)
    /\ UNCHANGED features

\* A walker that hands visit_dep the name of the dependency's crate.
VisitDep_crate_name(package, dep_name, dependency) ==
    \E r \in visit_dep(visitor) :
       LET ev == Visit("visit_dep", package.id, dependency.name, << >>, FALSE, r)
       IN /\ features' = collect_feature_value(visitor, features, package.id,
                                               Dep(dependency.name))
          /\ IF Propagates(r)
             THEN Returns(FromResidual(r), << ev >>)
             ELSE IF Declines(r)
                  THEN Returns(Ok, << ev >>)
                  ELSE Continues([Top EXCEPT !.pc = "resolve",
                                      !.dependency = dependency],
                                 << ev >>)

\* visit.rs 144-146: visit_dep is called as soon as the dependency is known.
VisitDep(package, dep_name, dependency) ==
    \E r \in visit_dep(visitor) :
       LET ev == Visit("visit_dep", package.id, dep_name, << >>, FALSE, r)
       IN /\ features' = collect_feature_value(visitor, features, package.id,
                                               Dep(dep_name))
          /\ IF Propagates(r)
             THEN Returns(FromResidual(r), << ev >>)
             ELSE IF Declines(r)
                  THEN Returns(Ok, << ev >>)
                  ELSE Continues([Top EXCEPT !.pc = "resolve",
                                      !.dependency = dependency],
                                 << ev >>)

\* A walker that consults the index first and reports a dependency whose
\* package is absent without calling visit_dep.
walk_dep_index_first ==
    /\ Running("walk_dep", "entry")
    /\ LET package == PackageOf(Top)
           dep_name == Top.name
           dependency == get_dependency(package, dep_name)
       IN IF dependency = None
          THEN MissingDependency(dep_name)
          ELSE IF package_name(dependency[1]) \in DOMAIN packages_by_name
               THEN VisitDep(package, dep_name, dependency[1])
               ELSE /\ Continues([Top EXCEPT !.pc = "resolve",
                                      !.dependency = dependency[1]], << >>)
                    /\ UNCHANGED features
    /\ SharedBorrow
    /\ UNCHANGED << visitor, package_arg, names_arg, others >>

\* visit.rs 140-146: the dependency is looked up among the package's own
\* dependencies, then visit_missing_dependency or visit_dep is called.
walk_dep ==
    /\ Running("walk_dep", "entry")
    /\ LET package == PackageOf(Top)
           dep_name == Top.name
           dependency == get_dependency(package, dep_name)
       IN IF dependency = None
          THEN MissingDependency(dep_name)
          ELSE VisitDep(package, dep_name, dependency[1])
    /\ SharedBorrow
    /\ UNCHANGED << visitor, package_arg, names_arg, others >>

\* visit.rs 148-151, 158-161: the dependency's package is looked up in the
\* index by the dependency's name; visit_missing_package when it is absent.
walk_dep_resolve ==
    /\ Running("walk_dep", "resolve")
    /\ LET name == package_name(Top.dependency)
       IN IF name \in DOMAIN packages_by_name
          THEN Continues([Top EXCEPT !.pc = "loop", !.i = 1,
                              !.dep_package = packages_by_name[name]],
                         << >>)
          ELSE \E r \in visit_missing_package(visitor, name) :
                 LET ev == Visit("visit_missing_package", "", name, << >>,
                                 FALSE, r)
                 IN IF Propagates(r)
                    THEN Returns(FromResidual(r), << ev >>)
                    ELSE Returns(Ok, << ev >>)
    /\ SharedBorrow
    /\ UNCHANGED << visitor, features, package_arg, names_arg, others >>

\* A loop over dependency.features from the last name to the first.
walk_dep_loop_reversed ==
    /\ Running("walk_dep", "loop")
    /\ IF Propagates(ret)
       THEN Returns(FromResidual(ret), << >>)
       ELSE IF Top.i > Len(Top.dependency.features)
            THEN Returns(Ok, << >>)
            ELSE LET dep_feature ==
                        FeatureValue_new(Top.dependency.features[
                            Len(Top.dependency.features) + 1 - Top.i])
                 IN IF AssertIsFeature(dep_feature)
                    THEN Calls([Top EXCEPT !.i = @ + 1],
                               walk_feature_value(Top.dep_package, dep_feature),
                               dep_feature)
                    ELSE Panics
    /\ SharedBorrow
    /\ UNCHANGED << visitor, features, package_arg, names_arg, others >>

\* visit.rs 152-156, 161: the loop over dependency.features.
walk_dep_loop ==
    /\ Running("walk_dep", "loop")
    /\ IF Propagates(ret)
       THEN Returns(FromResidual(ret), << >>)
       ELSE IF Top.i > Len(Top.dependency.features)
            THEN Returns(Ok, << >>)
            ELSE LET dep_feature == FeatureValue_new(Top.dependency.features[Top.i])
                 IN IF AssertIsFeature(dep_feature)
                    THEN Calls([Top EXCEPT !.i = @ + 1],
                               walk_feature_value(Top.dep_package, dep_feature),
                               dep_feature)
                    ELSE Panics
    /\ SharedBorrow
    /\ UNCHANGED << visitor, features, package_arg, names_arg, others >>

\* A walk_dep_feature that calls visit_dep_feature before it looks the
\* dependency up.
walk_dep_feature_visit_first ==
    /\ Running("walk_dep_feature", "entry")
    /\ LET package == PackageOf(Top)
           dep_name == Top.name
           dependency == get_dependency(package, dep_name)
       IN \E r \in visit_dep_feature(visitor) :
            LET ev == Visit("visit_dep_feature", package.id, dep_name,
                            Top.dep_feature, Top.weak, r)
            IN /\ features' = collect_feature_value(visitor, features,
                                  package.id,
                                  DepFeature(dep_name, Top.dep_feature, Top.weak))
               /\ IF Propagates(r)
                  THEN Returns(FromResidual(r), << ev >>)
                  ELSE IF Declines(r)
                  THEN Returns(Ok, << ev >>)
                  ELSE IF dependency = None
                  THEN \E m \in visit_missing_dependency(visitor, dep_name) :
                          Returns(m, << ev, Visit("visit_missing_dependency", "",
                                                  dep_name, << >>, FALSE, m) >>)
                  ELSE Continues([Top EXCEPT !.pc = "resolve",
                                      !.dependency = dependency[1]],
                                 << ev >>)
    /\ SharedBorrow
    /\ UNCHANGED << visitor, package_arg, names_arg, others >>

\* visit.rs 175-181: as walk_dep, with visit_dep_feature.
walk_dep_feature ==
    /\ Running("walk_dep_feature", "entry")
    /\ LET package == PackageOf(Top)
           dep_name == Top.name
           dependency == get_dependency(package, dep_name)
       IN IF dependency = None
          THEN MissingDependency(dep_name)
          ELSE \E r \in visit_dep_feature(visitor) :
                 LET ev == Visit("visit_dep_feature", package.id, dep_name,
                                 Top.dep_feature, Top.weak, r)
                 IN /\ features' = collect_feature_value(visitor, features,
                                       package.id,
                                       DepFeature(dep_name, Top.dep_feature,
                                                  Top.weak))
                    /\ IF Propagates(r)
                       THEN Returns(FromResidual(r), << ev >>)
                       ELSE IF Declines(r)
                            THEN Returns(Ok, << ev >>)
                            ELSE Continues([Top EXCEPT !.pc = "resolve",
                                                !.dependency = dependency[1]],
                                           << ev >>)
    /\ SharedBorrow
    /\ UNCHANGED << visitor, package_arg, names_arg, others >>

\* A walker that walks dep_feature on the package holding the token.
walk_dep_feature_resolve_on_referrer ==
    /\ Running("walk_dep_feature", "resolve")
    /\ LET name == package_name(Top.dependency)
       IN IF name \in DOMAIN packages_by_name
          THEN LET dep_package == packages_by_name[name]
                   dep_feature == FeatureValue_new(Top.dep_feature)
               IN IF AssertIsFeature(dep_feature)
                  THEN Calls([Top EXCEPT !.pc = "loop", !.i = 1,
                                  !.dep_package = dep_package],
                             walk_feature_value(Top.package, dep_feature),
                             dep_feature)
                  ELSE Panics
          ELSE \E r \in visit_missing_package(visitor, name) :
                 Returns(r, << Visit("visit_missing_package", "", name, << >>,
                                     FALSE, r) >>)
    /\ SharedBorrow
    /\ UNCHANGED << visitor, features, package_arg, names_arg, others >>

\* visit.rs 183-191: the index lookup, visit_missing_package when the package
\* is absent, else the walk of dep_feature on the dependency's package.
walk_dep_feature_resolve ==
    /\ Running("walk_dep_feature", "resolve")
    /\ LET name == package_name(Top.dependency)
       IN IF name \in DOMAIN packages_by_name
          THEN LET dep_package == packages_by_name[name]
                   dep_feature == FeatureValue_new(Top.dep_feature)
               IN IF AssertIsFeature(dep_feature)
                  THEN Calls([Top EXCEPT !.pc = "loop", !.i = 1,
                                  !.dep_package = dep_package],
                             walk_feature_value(dep_package, dep_feature),
                             dep_feature)
                  ELSE Panics
          ELSE \E r \in visit_missing_package(visitor, name) :
                 Returns(r, << Visit("visit_missing_package", "", name, << >>,
                                     FALSE, r) >>)
    /\ SharedBorrow
    /\ UNCHANGED << visitor, features, package_arg, names_arg, others >>

\* A walker that forgets the `if !weak`.
ManifestFeaturesAlways(weak, dependency) == dependency.features

\* The feature names walk_dep_feature walks after dep_feature: those of
\* dependency.features unless the reference is weak (visit.rs 193-199).
ManifestFeatures(weak, dependency) ==
    IF ~weak THEN dependency.features ELSE << >>

\* A loop that leaves out the entry of dependency.features that dep_feature
\* has just walked.
walk_dep_feature_loop_skips_walked ==
    /\ Running("walk_dep_feature", "loop")
    /\ LET feature_names ==
              SelectSeq(ManifestFeatures(Top.weak, Top.dependency),
                        LAMBDA e : e # Top.dep_feature)
       IN IF Propagates(ret)
          THEN Returns(FromResidual(ret), << >>)
          ELSE IF Top.i > Len(feature_names)
               THEN Returns(Ok, << >>)
               ELSE LET dep_feature == FeatureValue_new(feature_names[Top.i])
                    IN IF AssertIsFeature(dep_feature)
                       THEN Calls([Top EXCEPT !.i = @ + 1],
                                  walk_feature_value(Top.dep_package, dep_feature),
                                  dep_feature)
                       ELSE Panics
    /\ SharedBorrow
    /\ UNCHANGED << visitor, features, package_arg, names_arg, others >>

\* visit.rs 191 (the `?`), 193-201: the loop over dependency.features of a
\* strong reference.
walk_dep_feature_loop ==
    /\ Running("walk_dep_feature", "loop")
    /\ LET feature_names == ManifestFeatures(Top.weak, Top.dependency)
       IN IF Propagates(ret)
          THEN Returns(FromResidual(ret), << >>)
          ELSE IF Top.i > Len(feature_names)
               THEN Returns(Ok, << >>)
               ELSE LET dep_feature == FeatureValue_new(feature_names[Top.i])
                    IN IF AssertIsFeature(dep_feature)
                       THEN Calls([Top EXCEPT !.i = @ + 1],
                                  walk_feature_value(Top.dep_package, dep_feature),
                                  dep_feature)
                       ELSE Panics
    /\ SharedBorrow
    /\ UNCHANGED << visitor, features, package_arg, names_arg, others >>

Next ==
    \/ Call
    \/ walk_package_features
    \/ walk_feature
    \/ walk_feature_loop
    \/ walk_dep
    \/ walk_dep_resolve
    \/ walk_dep_loop
    \/ walk_dep_feature
    \/ walk_dep_feature_resolve
    \/ walk_dep_feature_loop

Spec == Init /\ [][Next]_vars

\* The same walks, for the properties of a declared dependency whose package
\* is absent from the index.
MissingPackageSpec == Init /\ [][Next]_vars

\* The same walks, for the properties of DepFeature tokens.
DepFeatureSpec == Init /\ [][Next]_vars

----------------------------------------------------------------------------
(* Several walks by one walker.  walk_package_features takes the walker by
   shared reference and the visitor by exclusive reference, so one walker
   serves any number of walks, each with a visitor of its own, one after the
   other or on several threads.  The variables visitor .. trace are those of
   the walk that takes the next step; walks keeps the others. *)

\* The running walk, as it is kept while another walk takes steps.
WalkState ==
    [visitor |-> visitor, features |-> features, package_arg |-> package_arg,
     names_arg |-> names_arg, stack |-> stack, ret |-> ret, result |-> result,
     phase |-> phase, trace |-> trace]

\* A walk that has not been called yet, with a new visitor v.
Fresh(v) ==
    [visitor |-> v, features |-> [id \in PackageIds |-> {}], package_arg |-> 0,
     names_arg |-> << >>, stack |-> << >>, ret |-> NoResult,
     result |-> NoResult, phase |-> "constructed", trace |-> << >>]

\* The place in walks of the walk that is running.
Vacant == Fresh([kind |-> "", err_on_missing |-> FALSE])

\* Walk w, running or not.
Walk(w) == IF w = current THEN WalkState ELSE walks[w]

\* A walker that keeps the value of the last completed call in a field of
\* its own, which all walks share.
Resume_shared_ret(w) ==
    /\ w \in DOMAIN walks
    /\ w # current
    /\ walks' = [walks EXCEPT ![current] = WalkState, ![w] = Vacant]
    /\ current' = w
    /\ visitor' = walks[w].visitor
    /\ features' = walks[w].features
    /\ package_arg' = walks[w].package_arg
    /\ names_arg' = walks[w].names_arg
    /\ stack' = walks[w].stack
    /\ result' = walks[w].result
    /\ phase' = walks[w].phase
    /\ trace' = walks[w].trace
    /\ UNCHANGED << metadata, packages_by_name, input, output, ret >>

\* The walk w takes the next steps; the running walk is left as it is.
Resume(w) ==
    /\ w \in DOMAIN walks
    /\ w # current
    /\ walks' = [walks EXCEPT ![current] = WalkState, ![w] = Vacant]
    /\ current' = w
    /\ visitor' = walks[w].visitor
    /\ features' = walks[w].features
    /\ package_arg' = walks[w].package_arg
    /\ names_arg' = walks[w].names_arg
    /\ stack' = walks[w].stack
    /\ ret' = walks[w].ret
    /\ result' = walks[w].result
    /\ phase' = walks[w].phase
    /\ trace' = walks[w].trace
    /\ UNCHANGED << metadata, packages_by_name, input, output >>

\* The running walk is over: it returned, or an assertion failed.
Over == phase \in { "returned", "panicked" }


----------------------------------------------------------------------------
(* Reading the history. *)

Range(seq) == { seq[i] : i \in DOMAIN seq }

IsVisit(k) == trace[k].ev = "visit"

\* The callbacks made so far, in order.
Callbacks == SelectSeq(trace, LAMBDA e : e.ev = "visit")

\* The positions of the callbacks that returned an error.
ErrVisits == { k \in DOMAIN trace : IsVisit(k) /\ IsErr(trace[k].ret) }

PackageById(id) ==
    metadata.packages[CHOOSE i \in DOMAIN metadata.packages :
                          metadata.packages[i].id = id]

IsEnter(k, fns) == trace[k].ev = "enter" /\ trace[k].what \in fns

\* The position of the return that ends the activation entered at k, 0 while
\* it is still running.
ExitIdx(k) ==
    LET later == { j \in (k+1)..Len(trace) :
                     trace[j].ev = "exit" /\ trace[j].depth = trace[k].depth }
    IN IF later = {} THEN 0 ELSE CHOOSE j \in later : \A j2 \in later : j <= j2

\* The last position of the activation entered at k.
EndIdx(k) == IF ExitIdx(k) = 0 THEN Len(trace) ELSE ExitIdx(k)

\* The calls made directly by the activation entered at k, in order.
ChildEnters(k) ==
    SelectSeq(SubSeq(trace, k + 1, EndIdx(k)),
              LAMBDA e : e.ev = "enter" /\ e.depth = trace[k].depth + 1)

\* Event e is the return, with value r, of the activation whose entry is event en.
IsExitOf(e, en, r) ==
    e = [en EXCEPT !.ev = "exit", !.ret = r]

\* The call a requirement token leads to, as an entry event shows it.
MatchesToken(e, package_id, tok) ==
    /\ e.package = package_id
    /\ e.name = tok.name
    /\ e.dep_feature = tok.dep_feature
    /\ e.weak = tok.weak
    /\ e.what = (CASE tok.kind = "Feature" -> "walk_feature"
                   [] tok.kind = "Dep" -> "walk_dep"
                   [] tok.kind = "DepFeature" -> "walk_dep_feature")

----------------------------------------------------------------------------
(* C1. Once a visitor callback has returned an error, no further callback of
   any kind is invoked during that walk_package_features call: the erroring
   callback is the last callback of the history. *)
C1_NoCallbackAfterError ==
    \A k \in ErrVisits : \A j \in (k+1)..Len(trace) : ~IsVisit(j)

\* The walk has returned after visit_feature(optdep, "g") failed four calls
\* deep, with entries of dependency.features, tokens of the enclosing
\* requirement list and a top-level name still to come.
C1_Witness ==
    /\ phase = "returned"
    /\ IsErr(result)
    /\ package_arg = 1
    /\ names_arg = << undeclared, default >>
    /\ \E k \in ErrVisits :
          /\ trace[k].what = "visit_feature"
          /\ trace[k].package = "optdep"
          /\ trace[k].name = extra
          /\ trace[k].depth = 4

(* C2. walk_package_features returns Err(e) exactly when some callback
   returned Err(e), with that very value e; when no callback returned an
   error and the walk has finished, it returns Ok(()).  Before the walk has
   finished nothing is returned. *)
C2_ResultIsCallbackError ==
    /\ phase = "returned" =>
          IF ErrVisits = {}
          THEN result = Ok
          ELSE /\ IsErr(result)
               /\ \E k \in ErrVisits : result = trace[k].ret
    /\ phase # "returned" => result = NoResult

\* The collector's own error value for the missing package of `optdep/feat`
\* came back from the walk, through walk_dep_feature, walk_feature and
\* walk_package_features.
C2_Witness ==
    /\ phase = "returned"
    /\ names_arg = << opt_feat_strong, default >>
    /\ result = Err([kind |-> "missing package", name |-> optdep])
    /\ Len(Callbacks) = 3

(* C3. When visit_feature(package, f) returns Ok(false), the very next thing
   is that walk_feature(package, f) returns Ok(()): nothing of f's requirement
   list is dispatched.  And the walk goes on: in a walk that has returned
   Ok(()), every name of feature_names was walked, in order, and every feature
   whose visit_feature returned Ok(true) had every token of its requirement
   list dispatched, in order. *)
C3_DeclinedFeatureIsSkipped ==
    /\ \A k \in DOMAIN trace :
          ( /\ IsVisit(k)
            /\ trace[k].what = "visit_feature"
            /\ trace[k].ret = OkBool(FALSE) )
          => /\ k > 1
             /\ k + 1 <= Len(trace)
             /\ IsEnter(k - 1, {"walk_feature"})
             /\ IsExitOf(trace[k + 1], trace[k - 1], Ok)
    /\ (phase = "returned" /\ result = Ok) =>
          /\ LET top == ChildEnters(1)
             IN /\ Len(top) = Len(names_arg)
                /\ \A i \in DOMAIN top :
                      MatchesToken(top[i], metadata.packages[package_arg].id,
                                   Feature(names_arg[i]))
          /\ \A k \in DOMAIN trace :
                ( /\ IsEnter(k, {"walk_feature"})
                  /\ k + 1 <= Len(trace)
                  /\ IsVisit(k + 1)
                  /\ trace[k + 1].ret = OkBool(TRUE) )
                => LET required == PackageById(trace[k].package).features[trace[k].name]
                       children == ChildEnters(k)
                   IN /\ Len(children) = Len(required)
                      /\ \A i \in DOMAIN children :
                            MatchesToken(children[i], trace[k].package,
                                         required[i])

\* feature_names = [default, default]: the first visit_feature(default) said
\* Ok(false), the second Ok(true); then visit_feature(feat1) said Ok(false)
\* and its sibling token bitflags was still walked.
C3_Witness ==
    /\ phase = "returned"
    /\ result = Ok
    /\ package_arg = 1
    /\ names_arg = << default, default >>
    /\ Len(Callbacks) >= 4
    /\ Callbacks[1].name = default /\ Callbacks[1].ret = OkBool(FALSE)
    /\ Callbacks[2].name = default /\ Callbacks[2].ret = OkBool(TRUE)
    /\ Callbacks[3].name = feat1 /\ Callbacks[3].ret = OkBool(FALSE)
    /\ Callbacks[4].what = "visit_feature" /\ Callbacks[4].name = bitflags

(* C4. Walking a feature name that is not a key of package.features makes no
   callback and returns Ok(()): the entry of walk_feature is followed at once
   by its return of Ok(()), and visit_feature is only ever called with a
   declared feature of its package. *)
C4_UndeclaredFeatureIsSilent ==
    /\ \A k \in DOMAIN trace :
          ( /\ IsEnter(k, {"walk_feature"})
            /\ trace[k].name \notin DOMAIN PackageById(trace[k].package).features
            /\ k + 1 <= Len(trace) )
          => IsExitOf(trace[k + 1], trace[k], Ok)
    /\ \A k \in DOMAIN trace :
          (IsVisit(k) /\ trace[k].what = "visit_feature")
          => trace[k].name \in DOMAIN PackageById(trace[k].package).features

\* One walk met all three cases: the top-level name feat (not a feature of the
\* root package), the dep_feature of `optdep/x` (not a feature of optdep) and
\* the plain token x of a requirement list, and returned Ok(()).
C4_Witness ==
    /\ phase = "returned"
    /\ result = Ok
    /\ package_arg = 1
    /\ names_arg = << feat, undeclared >>
    /\ \E k \in DOMAIN trace :
          /\ k + 1 <= Len(trace)
          /\ IsEnter(k, {"walk_feature"})
          /\ trace[k].package = "all" /\ trace[k].name = feat /\ trace[k].depth = 2
          /\ trace[k + 1].ev = "exit"
    /\ \E k \in DOMAIN trace :
          /\ k > 2
          /\ k + 1 <= Len(trace)
          /\ IsEnter(k, {"walk_feature"})
          /\ IsEnter(k - 2, {"walk_dep_feature"})
          /\ trace[k].package = "optdep" /\ trace[k].name = unknown
          /\ trace[k + 1].ev = "exit"
    /\ \E k \in DOMAIN trace :
          /\ k + 1 <= Len(trace)
          /\ IsEnter(k, {"walk_feature"})
          /\ trace[k].package = "all" /\ trace[k].name = unknown /\ trace[k].depth = 3
          /\ trace[k + 1].ev = "exit"

\* The features of package reachable from the names in S through plain
\* feature tokens.
RECURSIVE ReachableFeatures(_, _)
ReachableFeatures(package, S) ==
    LET declared == S \cap DOMAIN package.features
        more == { tok.name : tok \in { t \in UNION { Range(package.features[f]) :
                                                       f \in declared } :
                                         t.kind = "Feature" } }
    IN IF more \subseteq S THEN S ELSE ReachableFeatures(package, S \cup more)

\* Every token of every reachable requirement list of package is a plain
\* feature name.
OnlyPlainFeatures(package, names) ==
    \A f \in ReachableFeatures(package, Range(names)) \cap DOMAIN package.features :
       \A tok \in Range(package.features[f]) : tok.kind = "Feature"

(* C5. For a package whose reachable requirement lists contain only plain
   feature names, the walk calls visit_feature only, and only on that package;
   with default -> [feat1], feat1 -> [], walking [default] with a visitor that
   always continues makes exactly the callbacks visit_feature(default),
   visit_feature(feat1). *)
C5_PlainFeaturesOnlyVisitFeature ==
    phase # "constructed" =>
       LET package == metadata.packages[package_arg]
       IN /\ OnlyPlainFeatures(package, names_arg) =>
                \A k \in DOMAIN trace :
                   IsVisit(k) => /\ trace[k].what = "visit_feature"
                                 /\ trace[k].package = package.id
          /\ ( /\ package.features = (default :> << Feature(feat1) >>)
                                     @@ (feat1 :> << >>)
               /\ names_arg = << default >>
               /\ phase = "returned"
               /\ \A k \in DOMAIN trace : IsVisit(k) => trace[k].ret = OkBool(TRUE) )
             => /\ Len(Callbacks) = 2
                /\ Callbacks[1].what = "visit_feature"
                /\ Callbacks[1].name = default
                /\ Callbacks[2].what = "visit_feature"
                /\ Callbacks[2].name = feat1
                /\ result = Ok

\* The walk of [default] on the package with default -> [feat1], feat1 -> []
\* has returned under the collector, which always continues.
C5_Witness ==
    /\ phase = "returned"
    /\ IsCollector(visitor)
    /\ metadata.packages[package_arg].id = "bitflags"
    /\ names_arg = << default >>
    /\ Len(Callbacks) = 2
    /\ features["bitflags"] = { Feature(default), Feature(feat1) }

----------------------------------------------------------------------------
(* Requirement tokens and the calls that walk them. *)

\* The activation entered at k walks a Dep or DepFeature token.
IsDepEnter(k) == IsEnter(k, {"walk_dep", "walk_dep_feature"})

\* The dependency record the token walked at k names, if its package
\* declares one.
DependencyAt(k) == get_dependency(PackageById(trace[k].package), trace[k].name)

\* The token walked at k names a declared dependency whose package is absent
\* from the index.
PackageAbsentAt(k) ==
    /\ IsDepEnter(k)
    /\ DependencyAt(k) # None
    /\ DependencyAt(k)[1].name \notin DOMAIN packages_by_name

\* The callback walk_dep, resp. walk_dep_feature, makes for its token.
OwnCallback(k) ==
    IF trace[k].what = "walk_dep" THEN "visit_dep" ELSE "visit_dep_feature"

\* Event e is the callback what(package, name, dep_feature, weak) made by the
\* activation entered at k.
IsCallbackOf(e, k, what, package_id, name, dep_feature, weak) ==
    e = Event("visit", what, package_id, name, dep_feature, weak, e.ret,
              trace[k].depth)

\* The call entered at k walks a token of a feature's requirement list.
WalksToken(k) == trace[k].ev = "enter" /\ trace[k].by = "walk_feature"

\* That token, and the package whose requirement list holds it.
TokenAt(k) == trace[k].value

OwnerAt(k) == trace[k].by_package

(* C6. For a Dep or DepFeature token whose dep_name the package does not
   declare as a dependency, the walk calls visit_missing_dependency(dep_name)
   and nothing else for that token, and the token's walk returns exactly what
   visit_missing_dependency returned. *)
C6_MissingDependencyOnly ==
    \A k \in DOMAIN trace :
       (IsDepEnter(k) /\ DependencyAt(k) = None /\ k + 1 <= Len(trace))
       => /\ k + 2 <= Len(trace)
          /\ IsCallbackOf(trace[k + 1], k, "visit_missing_dependency", "",
                          trace[k].name, << >>, FALSE)
          /\ IsExitOf(trace[k + 2], trace[k], trace[k + 1].ret)

\* Both shapes in one walk: `dep:z` got Ok(()) from visit_missing_dependency
\* and the walk went on to `z/f`, whose visit_missing_dependency failed.
C6_Witness ==
    /\ phase = "returned"
    /\ names_arg = << missing >>
    /\ result = Err([kind |-> "E2", name |-> << >>])
    /\ Len(Callbacks) = 3
    /\ Callbacks[2].what = "visit_missing_dependency"
    /\ Callbacks[2].name = crate_z
    /\ Callbacks[2].ret = Ok
    /\ Callbacks[3].what = "visit_missing_dependency"
    /\ Callbacks[3].name = crate_z
    /\ \E k \in DOMAIN trace : IsEnter(k, {"walk_dep"}) /\ trace[k].name = crate_z
    /\ \E k \in DOMAIN trace :
          IsEnter(k, {"walk_dep_feature"}) /\ trace[k].name = crate_z

(* C7, as the claim states it. For every Dep or DepFeature token that names a
   declared dependency whose package is absent from the index, the walk of
   that token calls visit_missing_package with the dependency's package
   name. *)
C7_Original ==
    \A k \in DOMAIN trace :
       (PackageAbsentAt(k) /\ ExitIdx(k) # 0)
       => \E j \in (k+1)..ExitIdx(k) :
             /\ IsVisit(j)
             /\ trace[j].what = "visit_missing_package"
             /\ trace[j].name = DependencyAt(k)[1].name

(* C7, amended. For every such token whose visit_dep, resp.
   visit_dep_feature, returned Ok(true), the walk calls visit_missing_package
   with the dependency's package name (dependency.name, not the name the
   token uses) and then returns from the token without expanding anything. *)
C7_MissingPackageAfterContinue ==
    \A k \in DOMAIN trace :
       ( /\ PackageAbsentAt(k)
         /\ k + 2 <= Len(trace)
         /\ trace[k + 1].ret = OkBool(TRUE) )
       => /\ k + 3 <= Len(trace)
          /\ IsCallbackOf(trace[k + 2], k, "visit_missing_package", "",
                          DependencyAt(k)[1].name, << >>, FALSE)
          /\ IsExitOf(trace[k + 3], trace[k],
                      IF IsErr(trace[k + 2].ret) THEN trace[k + 2].ret ELSE Ok)

\* `optdep/x` and `dep:n` were both walked with the packages of optdep and of
\* n (crate q) absent: visit_missing_package got "o", then "q".
C7_Witness ==
    /\ phase = "returned"
    /\ result = Ok
    /\ names_arg = << undeclared >>
    /\ Len(Callbacks) = 5
    /\ Callbacks[2].what = "visit_dep_feature"
    /\ Callbacks[3].what = "visit_missing_package" /\ Callbacks[3].name = optdep
    /\ Callbacks[4].what = "visit_dep" /\ Callbacks[4].name = renamed
    /\ Callbacks[5].what = "visit_missing_package" /\ Callbacks[5].name = crate_q

(* C8. For a Dep (DepFeature) token whose dependency is declared but whose
   package is absent from the index, visit_dep (visit_dep_feature) is called
   on the owning package first, and every visit_missing_package comes right
   after such a callback that returned Ok(true); so the collector, which
   always continues, has the token recorded under the owning package, and in
   a document without the optional packages it records nothing under any
   other package than the one walked. *)
C8_VisitDepBeforeMissingPackage ==
    /\ \A k \in DOMAIN trace :
          (PackageAbsentAt(k) /\ k + 1 <= Len(trace))
          => IsCallbackOf(trace[k + 1], k, OwnCallback(k), trace[k].package,
                          trace[k].name, trace[k].dep_feature, trace[k].weak)
    /\ \A j \in DOMAIN trace :
          (IsVisit(j) /\ trace[j].what = "visit_missing_package")
          => /\ j > 2
             /\ PackageAbsentAt(j - 2)
             /\ trace[j - 1].ret = OkBool(TRUE)
             /\ IsCallbackOf(trace[j - 1], j - 2, OwnCallback(j - 2),
                             trace[j - 2].package, trace[j - 2].name,
                             trace[j - 2].dep_feature, trace[j - 2].weak)
             /\ IsCollector(visitor) =>
                   (IF trace[j - 2].what = "walk_dep"
                    THEN Dep(trace[j - 2].name)
                    ELSE DepFeature(trace[j - 2].name, trace[j - 2].dep_feature,
                                    trace[j - 2].weak))
                   \in features[trace[j - 2].package]
    /\ ( /\ IsCollector(visitor)
         /\ phase # "constructed"
         /\ metadata.packages[package_arg].id = "all"
         /\ optdep \notin DOMAIN packages_by_name )
       => \A id \in PackageIds \ {"all"} : features[id] = {}

\* As in the test all_features: optdep is not in the document, the collector
\* ignores what is missing, and after walking optdep and opt-feat-strong only
\* the root package has a set, holding both tokens.
C8_Witness ==
    /\ phase = "returned"
    /\ result = Ok
    /\ IsCollector(visitor)
    /\ names_arg = << optdep, opt_feat_strong >>
    /\ optdep \notin DOMAIN packages_by_name
    /\ features["all"] = { Feature(optdep), Dep(optdep), Feature(opt_feat_strong),
                           DepFeature(optdep, feat, FALSE) }
    /\ features["optdep"] = {}
    /\ Len(Callbacks) = 6

\* The DepFeature token walked at k named a declared dependency, the visitor
\* said Ok(true) and the dependency's package was found.
ResolvedAt(k) ==
    /\ IsEnter(k, {"walk_dep_feature"})
    /\ DependencyAt(k) # None
    /\ DependencyAt(k)[1].name \in DOMAIN packages_by_name
    /\ k + 1 <= Len(trace)
    /\ trace[k + 1].ret = OkBool(TRUE)

\* What a resolved `dep/feat` or `dep?/feat` is to walk on the dependency's
\* package: feat, and for a strong reference the dependency's features.
ExpectedDepWalks(k) ==
    IF trace[k].weak
    THEN << trace[k].dep_feature >>
    ELSE << trace[k].dep_feature >> \o DependencyAt(k)[1].features

(* C9. A strong DepFeature token whose dependency package is resolved walks
   feat on the dependency package and then every name of dependency.features
   on the dependency package; a weak one walks feat only.  At any moment the
   walks made for the token are the first ones of that list, and all of it
   when the token's walk has returned Ok(()). *)
C9_StrongWalksManifestFeatures ==
    \A k \in DOMAIN trace :
       ResolvedAt(k) =>
          LET children == ChildEnters(k)
              expected == ExpectedDepWalks(k)
              dep_id == metadata.packages[
                            packages_by_name[DependencyAt(k)[1].name]].id
          IN /\ Len(children) <= Len(expected)
             /\ \A i \in DOMAIN children :
                   MatchesToken(children[i], dep_id, Feature(expected[i]))
             /\ (ExitIdx(k) # 0 /\ trace[ExitIdx(k)].ret = Ok)
                   => Len(children) = Len(expected)

\* Both references to optdep were walked to the end with optdep in the
\* document: the strong one walked f, g and x on optdep, the weak one f only.
C9_Witness ==
    /\ phase = "returned"
    /\ result = Ok
    /\ names_arg = << opt_feat_strong, opt_feat_weak >>
    /\ \E k \in DOMAIN trace :
          ResolvedAt(k) /\ ~trace[k].weak /\ Len(ChildEnters(k)) = 3
    /\ \E k \in DOMAIN trace :
          ResolvedAt(k) /\ trace[k].weak /\ Len(ChildEnters(k)) = 1
    /\ \E k \in DOMAIN trace :
          IsVisit(k) /\ trace[k].package = "optdep" /\ trace[k].name = extra

\* What the activation entered at k itself called back with a package.
OwnPackageCallbacks(k) ==
    { j \in (k+1)..EndIdx(k) :
        IsVisit(j) /\ trace[j].depth = trace[k].depth /\ trace[j].package # "" }

\* The one callback of the DepFeature token tok of package owner, walked by
\* the call entered at k: visit_dep_feature on the owning package, with the
\* token's dep_name, dep_feature and weak flag.
OneDepFeatureCallback(k, owner, tok) ==
    /\ IsCallbackOf(trace[k + 1], k, "visit_dep_feature", owner, tok.name,
                    tok.dep_feature, tok.weak)
    /\ OwnPackageCallbacks(k) = { k + 1 }
    /\ \A j \in (k+1)..EndIdx(k) :
          ~(IsVisit(j) /\ trace[j].what = "visit_dep"
                       /\ trace[j].package = owner)

(* C10, as the claim states it. Walking any DepFeature token makes exactly one
   callback on the owning package, visit_dep_feature with the token's weak
   flag, and never visit_dep. *)
C10_Original ==
    \A k \in DOMAIN trace :
       (WalksToken(k) /\ k + 1 <= Len(trace)) =>
          LET tok == TokenAt(k)
              owner == OwnerAt(k)
          IN tok.kind = "DepFeature" => OneDepFeatureCallback(k, owner, tok)

(* C10, amended. Walking a DepFeature token whose dep_name the owning package
   declares as a dependency makes exactly one callback on the owning package
   for that token: visit_dep_feature(pkg, dep_name, dep_feature, weak) with
   the token's own weak flag; visit_dep is never called for it. *)
C10_DepFeatureIsNotDep ==
    \A k \in DOMAIN trace :
       (WalksToken(k) /\ k + 1 <= Len(trace)) =>
          LET tok == TokenAt(k)
              owner == OwnerAt(k)
          IN ( /\ tok.kind = "DepFeature"
               /\ get_dependency(PackageById(owner), tok.name) # None )
             => OneDepFeatureCallback(k, owner, tok)

\* As in the tests strong_dep_feature and weak_dep_feature together: the
\* collector holds, for the root package, its two features and the two
\* DepFeature tokens, and no Dep(optdep).
C10_Witness ==
    /\ phase = "returned"
    /\ IsCollector(visitor)
    /\ optdep \in DOMAIN packages_by_name
    /\ names_arg = << opt_feat_strong, opt_feat_weak >>
    /\ features["all"] = { Feature(opt_feat_strong), Feature(opt_feat_weak),
                           DepFeature(optdep, feat, FALSE),
                           DepFeature(optdep, feat, TRUE) }
    /\ features["optdep"] # {}

----------------------------------------------------------------------------
(* The parser of requirement tokens on its own: FeatureValue::new applied to
   every token put together from at most MaxPieces pieces, a piece being one
   character of the alphabet d e p : / ? or the prefix `dep:`. *)

\* Most pieces a parsed requirement token is put together from.
MaxPieces == 4

Pieces ==
    { << "d" >>, << "e" >>, << "p" >>, << ":" >>, << "/" >>, << "?" >>,
      DepPrefix }

RECURSIVE Flatten(_)
Flatten(ps) == IF ps = << >> THEN << >> ELSE Head(ps) \o Flatten(Tail(ps))

Tokens == { Flatten(ps) : ps \in SeqsUpTo(Pieces, MaxPieces) } \ { << >> }

\* No walker is at work while a string is parsed.
NoWalk ==
    /\ metadata = [packages |-> << >>]
    /\ packages_by_name = FeatureWalker_new(metadata)
    /\ visitor = [kind |-> "any", err_on_missing |-> FALSE]
    /\ features = [id \in PackageIds |-> {}]
    /\ package_arg = 0
    /\ names_arg = << >>
    /\ stack = << >>
    /\ ret = NoResult
    /\ result = NoResult
    /\ phase = "idle"
    /\ trace = << >>
    /\ current = 1
    /\ walks = << >>

ParseInit ==
    /\ NoWalk
    /\ input \in Tokens
    /\ output = NoValue

\* FeatureValue::new(input)
Parse ==
    /\ output = NoValue
    /\ output' = FeatureValue_new(input)
    /\ UNCHANGED << metadata, packages_by_name, visitor, features, package_arg,
                    names_arg, stack, ret, result, phase, trace, current, walks,
                    input >>

ParseNext == Parse

ParseSpec == ParseInit /\ [][ParseNext]_vars

\* How often character c occurs in s.
CountOf(s, c) == Cardinality({ i \in DOMAIN s : s[i] = c })

\* The part of s before its only `/`, and the part after it.
LeftOf(s) == SubSeq(s, 1, (CHOOSE i \in DOMAIN s : s[i] = "/") - 1)

RightOf(s) == SubSeq(s, (CHOOSE i \in DOMAIN s : s[i] = "/") + 1, Len(s))

\* The token has been parsed.
Parsed == output # NoValue

\* A token with no `/` that does not start with `dep:` is Feature(token).
ParsesPlain ==
    (CountOf(input, "/") = 0 /\ ~StartsWith(input, DepPrefix))
       => output = Feature(input)

\* The Dep the claim expects of a token starting with `dep:`.
ParsesDep == output = Dep(SubSeq(input, 5, Len(input)))

\* The DepFeature the claim expects of a token with exactly one `/`.
ParsesDepFeature ==
    LET left == LeftOf(input) IN
    IF left # << >> /\ left[Len(left)] = "?"
    THEN output = DepFeature(SubSeq(left, 1, Len(left) - 1), RightOf(input), TRUE)
    ELSE output = DepFeature(left, RightOf(input), FALSE)

(* C11, as the claim states it. Every parsed token with no `/` and no `dep:`
   prefix is Feature(token); every token starting with `dep:` is Dep of the
   token without its first four characters; every token with exactly one `/`
   is DepFeature of the parts before and after it, weak with the `?` removed
   when the part before ends with `?`. *)
C11_Original ==
    Parsed =>
       /\ ParsesPlain
       /\ StartsWith(input, DepPrefix) => ParsesDep
       /\ CountOf(input, "/") = 1 => ParsesDepFeature

(* C11, amended. As above, where the Dep clause covers the tokens starting
   with `dep:` that hold no `/`, and the DepFeature clause the tokens with
   exactly one `/` that do not start with `dep:`. *)
C11_ParseFollowsGrammar ==
    Parsed =>
       /\ ParsesPlain
       /\ (StartsWith(input, DepPrefix) /\ CountOf(input, "/") = 0) => ParsesDep
       /\ (CountOf(input, "/") = 1 /\ ~StartsWith(input, DepPrefix))
             => ParsesDepFeature

\* The weak reference `d?/e` has been parsed.
C11_Witness ==
    /\ input = << "d", "?", "/", "e" >>
    /\ output = DepFeature(<< "d" >>, << "e" >>, TRUE)

----------------------------------------------------------------------------
(* The same walk made twice: a caller walks (package, feature_names), and
   when that walk is over walks the same package and names again with a new
   visitor of the same kind. *)

\* Longest feature_names list of a walk that is made again.
MaxRepeatNames == 2

\* The names a caller passes to a walk that is made again.
RepeatNameInputs == { optdep, undeclared }

\* The walker is constructed, and there are visitors for walks 1 .. n.
Constructed(n) ==
    /\ metadata \in Documents
    /\ packages_by_name = FeatureWalker_new(metadata)
    /\ features = [id \in PackageIds |-> {}]
    /\ package_arg = 0
    /\ names_arg = << >>
    /\ stack = << >>
    /\ ret = NoResult
    /\ result = NoResult
    /\ phase = "constructed"
    /\ trace = << >>
    /\ current = 1
    /\ DOMAIN walks = 1..n
    /\ walks[1] = Vacant
    /\ input = << >>
    /\ output = NoValue

\* The callbacks walk w has made, in order.
CallbacksOf(w) == SelectSeq(Walk(w).trace, LAMBDA e : e.ev = "visit")

\* A callback without what the visitor answered: the method and its arguments.
Invocation(e) == [e EXCEPT !.ret = NoResult]

\* The visitors of the callback sequences a and b decided alike before k.
SameDecisionsBefore(a, b, k) == \A j \in 1..(k - 1) : a[j].ret = b[j].ret

Shorter(a, b) == IF Len(a) <= Len(b) THEN Len(a) ELSE Len(b)

\* Walks v and w agree: as long as their visitors decided alike they made the
\* same callbacks in the same order, and when both are over after the same
\* decisions they made equally many and ended alike.
Agree(v, w) ==
    LET a == CallbacksOf(v)
        b == CallbacksOf(w)
    IN /\ \A k \in 1..Shorter(a, b) :
             SameDecisionsBefore(a, b, k) => Invocation(a[k]) = Invocation(b[k])
       /\ ( /\ Walk(v).phase \in { "returned", "panicked" }
            /\ Walk(w).phase \in { "returned", "panicked" }
            /\ SameDecisionsBefore(a, b, Shorter(a, b) + 1) )
          => /\ a = b
             /\ Walk(v).result = Walk(w).result
             /\ Walk(v).phase = Walk(w).phase

\* The visitor of walk w is one that makes the same decisions as the visitor
\* of walk v: called as that one was called, it has answered as that one did.
DecidesAs(v, w) ==
    LET a == CallbacksOf(v)
        b == CallbacksOf(w)
        k == Len(b)
    IN ( /\ k >= 1
         /\ k <= Len(a)
         /\ \A j \in 1..k : Invocation(a[j]) = Invocation(b[j]) )
       => b[k].ret = a[k].ret

\* The visitor of the second walk decides as the visitor of the first.
SameDecisions == current = 2 => DecidesAs(1, 2)

TwiceInit ==
    /\ visitor \in Visitors
    /\ walks = << Vacant, Fresh(visitor) >>
    /\ Constructed(2)

\* The first call of walk_package_features.
FirstCall ==
    /\ current = 1
    /\ phase = "constructed"
    /\ \E package \in DOMAIN metadata.packages :
       \E feature_names \in SeqsUpTo(RepeatNameInputs, MaxRepeatNames) :
          Invoke(package, feature_names)

\* The first walk is over; the caller turns to the second.
SecondWalk ==
    /\ current = 1
    /\ Over
    /\ Resume(2)

\* The second call, with the arguments of the first.
CallAgain ==
    /\ current = 2
    /\ Invoke(walks[1].package_arg, walks[1].names_arg)

TwiceNext ==
    \/ FirstCall
    \/ SecondWalk
    \/ CallAgain
    \/ walk_package_features /\ SameDecisions'
    \/ walk_feature /\ SameDecisions'
    \/ walk_feature_loop /\ SameDecisions'
    \/ walk_dep /\ SameDecisions'
    \/ walk_dep_resolve /\ SameDecisions'
    \/ walk_dep_loop /\ SameDecisions'
    \/ walk_dep_feature /\ SameDecisions'
    \/ walk_dep_feature_resolve /\ SameDecisions'
    \/ walk_dep_feature_loop /\ SameDecisions'

TwiceSpec == TwiceInit /\ [][TwiceNext]_vars

(* C12. The walk is deterministic: the second walk of the same package and
   feature names over the same metadata, with a new visitor that makes the
   same decisions, makes the same callbacks with the same arguments in the
   same order as the first, and returns the same result. *)
C12_SameWalkSameCallbacks == current = 2 => Agree(1, 2)

\* Both walks of (root, [undeclared, optdep]) have returned the same error
\* after the same six callbacks or more.
C12_Witness ==
    /\ current = 2
    /\ phase = "returned"
    /\ IsErr(result)
    /\ package_arg = 1
    /\ names_arg = << undeclared, optdep >>
    /\ walks[1].result = result
    /\ Len(CallbacksOf(2)) >= 6
    /\ CallbacksOf(1) = CallbacksOf(2)

----------------------------------------------------------------------------
(* The same names in another order: a caller walks (package, feature_names)
   with a visitor that always continues, and then walks the same package with
   the same names in any order, with a new visitor of that kind. *)

\* TransitiveFeatureCollector::new(false): every callback answers Ok(true),
\* resp. Ok(()).
AlwaysContinues == [kind |-> "TransitiveFeatureCollector", err_on_missing |-> FALSE]

\* The orderings of the sequence names.
Orderings(names) ==
    { [i \in DOMAIN names |-> names[f[i]]] :
        f \in { g \in [DOMAIN names -> DOMAIN names] :
                  \A i, j \in DOMAIN names : g[i] = g[j] => i = j } }

PermutedInit ==
    /\ visitor = AlwaysContinues
    /\ walks = << Vacant, Fresh(AlwaysContinues) >>
    /\ Constructed(2)

\* The second call, with the names of the first in any order.
CallPermuted ==
    /\ current = 2
    /\ phase = "constructed"
    /\ \E feature_names \in Orderings(walks[1].names_arg) :
          Invoke(walks[1].package_arg, feature_names)

PermutedNext ==
    \/ FirstCall
    \/ SecondWalk
    \/ CallPermuted
    \/ walk_package_features
    \/ walk_feature
    \/ walk_feature_loop
    \/ walk_dep
    \/ walk_dep_resolve
    \/ walk_dep_loop
    \/ walk_dep_feature
    \/ walk_dep_feature_resolve
    \/ walk_dep_feature_loop

PermutedSpec == PermutedInit /\ [][PermutedNext]_vars

\* The (package, callback, arguments) invocations walk w has made.
InvocationSet(w) ==
    { [what |-> e.what, package |-> e.package, name |-> e.name,
       dep_feature |-> e.dep_feature, weak |-> e.weak] :
        e \in Range(CallbacksOf(w)) }

(* C13. With a visitor that always continues, a walk of the same names in
   another order makes the same set of (package, callback, arguments)
   invocations, and leaves the same sets in a collector keyed by package. *)
C13_OrderKeepsInvocationSet ==
    (current = 2 /\ phase = "returned")
       => /\ InvocationSet(2) = InvocationSet(1)
          /\ features = walks[1].features

\* (root, [undeclared, optdep]) and (root, [optdep, undeclared]) have been
\* walked: other callback sequences, the same invocations.
C13_Witness ==
    /\ current = 2
    /\ phase = "returned"
    /\ package_arg = 1
    /\ names_arg = << optdep, undeclared >>
    /\ walks[1].names_arg = << undeclared, optdep >>
    /\ CallbacksOf(2) # CallbacksOf(1)
    /\ Cardinality(InvocationSet(2)) >= 6

----------------------------------------------------------------------------
(* C14. A walk never mutates the metadata document or the walker: no step,
   of a walk that returns Ok or of one that returns Err, changes the
   packages, their feature tables and dependency lists, or the name index
   packages_by_name. *)
C14_WalkMutatesNothing ==
    [][ /\ metadata' = metadata
        /\ packages_by_name' = packages_by_name ]_vars

\* A walk has returned Err after its collector recorded a feature of the
\* root package; the index is the one FeatureWalker::new built.
C14_Witness ==
    /\ phase = "returned"
    /\ IsErr(result)
    /\ features["all"] # {}
    /\ Len(trace) >= 6
    /\ packages_by_name = FeatureWalker_new(metadata)

----------------------------------------------------------------------------
(* Two walks at once.  A caller walks (package, feature_names) alone; then
   two threads share the walker: one makes that walk again, with a new
   visitor that makes the same decisions, the other makes a walk of its own
   with its own visitor, and their steps interleave in any way. *)

\* The feature_names of the walk that is made alone and then on a thread.
ThreadNameInputs == { << n >> : n \in RepeatNameInputs }

\* The feature_names of the walk on the other thread.
OtherNameInputs == { << undeclared >>, << default >> }

ConcurrentInit ==
    /\ visitor \in Visitors
    /\ walks = << Vacant, Fresh(visitor), Fresh(AlwaysContinues) >>
    /\ Constructed(3)

\* The call of the walk that runs alone.
AloneCall ==
    /\ current = 1
    /\ phase = "constructed"
    /\ \E package \in DOMAIN metadata.packages :
       \E feature_names \in ThreadNameInputs :
          Invoke(package, feature_names)

\* The call of the other thread.
OtherCall ==
    /\ current = 3
    /\ \E feature_names \in OtherNameInputs : Invoke(1, feature_names)

\* The scheduler takes the processor from one thread and gives it to the
\* other, between any two steps.
Switch ==
    /\ current \in { 2, 3 }
    /\ Resume(5 - current)

ConcurrentNext ==
    \/ AloneCall
    \/ SecondWalk
    \/ CallAgain
    \/ OtherCall
    \/ Switch
    \/ walk_package_features /\ SameDecisions'
    \/ walk_feature /\ SameDecisions'
    \/ walk_feature_loop /\ SameDecisions'
    \/ walk_dep /\ SameDecisions'
    \/ walk_dep_resolve /\ SameDecisions'
    \/ walk_dep_loop /\ SameDecisions'
    \/ walk_dep_feature /\ SameDecisions'
    \/ walk_dep_feature_resolve /\ SameDecisions'
    \/ walk_dep_feature_loop /\ SameDecisions'

ConcurrentSpec == ConcurrentInit /\ [][ConcurrentNext]_vars

(* C15. Two walks over the same metadata, each with its own visitor, whose
   steps interleave in any way: the walk on the one thread makes the same
   callbacks in the same order, and returns the same result, as the same
   walk made alone. *)
C15_InterleavedAsAlone == current \in { 2, 3 } => Agree(1, 2)

\* Both threads are in the middle of their walks, each two calls deep or
\* more and after two callbacks or more, and the first has made the
\* callbacks the walk made alone.
C15_Witness ==
    /\ current = 3
    /\ phase = "walking"
    /\ walks[2].phase = "walking"
    /\ Len(stack) >= 2
    /\ Len(walks[2].stack) >= 2
    /\ Len(CallbacksOf(3)) >= 2
    /\ Len(CallbacksOf(2)) >= 2
    /\ CallbacksOf(2) = SubSeq(CallbacksOf(1), 1, Len(CallbacksOf(2)))

----------------------------------------------------------------------------
(* BareVersion::from_str (src/src/bare_version.rs 27-46) on its own. *)

Digits == << "0", "1", "2", "3", "4", "5", "6", "7", "8", "9" >>

IsDigit(c) == \E i \in DOMAIN Digits : Digits[i] = c

DigitValue(c) == (CHOOSE i \in DOMAIN Digits : Digits[i] = c) - 1

\* u64::MAX, 18446744073709551615, digit by digit.
U64Max ==
    << "1", "8", "4", "4", "6", "7", "4", "4", "0", "7", "3", "7", "0", "9",
       "5", "5", "1", "6", "1", "5" >>

\* The number written ds, without leading zeros, is greater than u64::MAX.
Overflows(ds) ==
    \/ Len(ds) > Len(U64Max)
    \/ /\ Len(ds) = Len(U64Max)
       /\ \E i \in DOMAIN ds :
             /\ DigitValue(ds[i]) > DigitValue(U64Max[i])
             /\ \A j \in 1..(i - 1) : ds[j] = U64Max[j]

\* Result<u64, ParseIntError>; a u64 is kept as its decimal digits.
U64Ok(ds) == [tag |-> "Ok", val |-> ds, err |-> ""]

U64Err(kind) == [tag |-> "Err", val |-> << >>, err |-> kind]

\* The loop of u64::from_str over the digits: acc = acc * 10 + digit, checked.
RECURSIVE from_str_digits(_, _)
from_str_digits(acc, rest) ==
    IF rest = << >>
    THEN U64Ok(acc)
    ELSE IF ~IsDigit(Head(rest))
         THEN U64Err("InvalidDigit")
         ELSE LET next == IF acc = << "0" >>
                          THEN << Head(rest) >>
                          ELSE Append(acc, Head(rest))
              IN IF Overflows(next)
                 THEN U64Err("PosOverflow")
                 ELSE from_str_digits(next, Tail(rest))

\* A u64 parser that takes the empty string for zero.
u64_from_str_empty_is_zero(src) ==
    IF src = << >>
    THEN U64Ok(<< "0" >>)
    ELSE LET digits == IF src[1] = "+" THEN Tail(src) ELSE src
         IN IF digits = << >>
            THEN U64Err("InvalidDigit")
            ELSE from_str_digits(<< "0" >>, digits)

\* u64::from_str, as `.parse()` and `u64::from_str` call it: an optional `+`,
\* then decimal digits.
u64_from_str(src) ==
    IF src = << >>
    THEN U64Err("Empty")
    ELSE LET digits == IF src[1] = "+" THEN Tail(src) ELSE src
         IN IF digits = << >>
            THEN U64Err("InvalidDigit")
            ELSE from_str_digits(<< "0" >>, digits)

\* s.splitn(n, c): at most n parts, the last taking the rest of the string.
RECURSIVE splitn(_, _, _)
splitn(s, n, c) ==
    IF n = 1 \/ Find(s, c) = 0
    THEN << s >>
    ELSE << SubSeq(s, 1, Find(s, c) - 1) >>
         \o splitn(SubSeq(s, Find(s, c) + 1, Len(s)), n - 1, c)

\* Result<BareVersion, BareVersionError>.
BareVersion(major, minor, patch) ==
    [tag |-> "Ok", major |-> major, minor |-> minor, patch |-> patch,
     err |-> "", cause |-> ""]

BareVersionError(err, cause) ==
    [tag |-> "Err", major |-> << >>, minor |-> << >>, patch |-> None,
     err |-> err, cause |-> cause]

\* A from_str that looks for the minor version before it parses the major.
BareVersion_from_str_minor_first(s) ==
    LET parts == splitn(s, 3, ".")
        major == u64_from_str(parts[1])
        minor == u64_from_str(parts[2])
        patch == u64_from_str(parts[3])
    IN IF parts[1] = << >>
       THEN BareVersionError("Empty", "")
       ELSE IF Len(parts) < 2 \/ parts[2] = << >>
       THEN BareVersionError("ExpectedMinorVersion", "")
       ELSE IF major.tag = "Err"
       THEN BareVersionError("ParseInt", major.err)
       ELSE IF minor.tag = "Err"
       THEN BareVersionError("ParseInt", minor.err)
       ELSE IF Len(parts) < 3
       THEN BareVersion(major.val, minor.val, None)
       ELSE IF patch.tag = "Err"
       THEN BareVersionError("ParseInt", patch.err)
       ELSE BareVersion(major.val, minor.val, Some(patch.val))

\* BareVersion::from_str.  Each `?` returns the error at once, so the major
\* version is parsed before the minor version is looked for.
BareVersion_from_str(s) ==
    LET parts == splitn(s, 3, ".")
        major == u64_from_str(parts[1])
        minor == u64_from_str(parts[2])
        patch == u64_from_str(parts[3])
    IN IF parts[1] = << >>
       THEN BareVersionError("Empty", "")
       ELSE IF major.tag = "Err"
       THEN BareVersionError("ParseInt", major.err)
       ELSE IF Len(parts) < 2 \/ parts[2] = << >>
       THEN BareVersionError("ExpectedMinorVersion", "")
       ELSE IF minor.tag = "Err"
       THEN BareVersionError("ParseInt", minor.err)
       ELSE IF Len(parts) < 3
       THEN BareVersion(major.val, minor.val, None)
       ELSE IF patch.tag = "Err"
       THEN BareVersionError("ParseInt", patch.err)
       ELSE BareVersion(major.val, minor.val, Some(patch.val))

\* Longest version string made of the characters of VersionAlphabet.
MaxVersionLen == 5

VersionAlphabet == { "1", ".", "+", " " }

\* Versions with a component at, and just above, u64::MAX.
LongVersions ==
    { U64Max \o << ".", "1" >>,
      SubSeq(U64Max, 1, 19) \o << "6", ".", "1" >>,
      << "1", "." >> \o U64Max \o << "0" >>,
      << "0", "0" >> \o U64Max \o << ".", "1", ".", "0", "1" >> }

VersionInputs == SeqsUpTo(VersionAlphabet, MaxVersionLen) \cup LongVersions

VersionInit ==
    /\ NoWalk
    /\ input \in VersionInputs
    /\ output = NoValue

\* BareVersion::from_str(input)
from_str ==
    /\ output = NoValue
    /\ output' = BareVersion_from_str(input)
    /\ UNCHANGED << metadata, packages_by_name, visitor, features, package_arg,
                    names_arg, stack, ret, result, phase, trace, current, walks,
                    input >>

VersionNext == from_str

VersionSpec == VersionInit /\ [][VersionNext]_vars

\* The positions of the dots of the input.
Dots == { i \in DOMAIN input : input[i] = "." }

\* The k-th dot.
Dot(k) == CHOOSE i \in Dots : Cardinality({ j \in Dots : j < i }) = k - 1

\* The dot-separated parts of the input: the first up to the first dot, the
\* second up to the second dot, the third the rest of the string.
FirstPart ==
    IF Dots = {} THEN input ELSE SubSeq(input, 1, Dot(1) - 1)

HasSecondPart == Cardinality(Dots) >= 1

SecondPart ==
    IF Cardinality(Dots) = 1
    THEN SubSeq(input, Dot(1) + 1, Len(input))
    ELSE SubSeq(input, Dot(1) + 1, Dot(2) - 1)

HasThirdPart == Cardinality(Dots) >= 2

ThirdPart == SubSeq(input, Dot(2) + 1, Len(input))

\* p without a leading `+`.
Unsigned(p) == IF p # << >> /\ p[1] = "+" THEN Tail(p) ELSE p

\* The digits of p from its first digit that is not 0.
Significant(p) ==
    LET d == Unsigned(p)
        nz == { i \in DOMAIN d : d[i] # "0" }
    IN IF nz = {} THEN << >>
       ELSE SubSeq(d, CHOOSE i \in nz : \A j \in nz : i <= j, Len(d))

\* p is an unsigned integer, as u64 reads one: decimal digits, at least one,
\* after an optional `+`, of a value up to 18446744073709551615.
IsUnsignedInteger(p) ==
    /\ Unsigned(p) # << >>
    /\ \A i \in DOMAIN Unsigned(p) : IsDigit(Unsigned(p)[i])
    /\ LET sig == Significant(p)
       IN \/ Len(sig) < 20
          \/ /\ Len(sig) = 20
             /\ \A i \in 1..20 :
                   (\A j \in 1..(i - 1) : sig[j] = U64Max[j])
                      => DigitValue(sig[i]) <= DigitValue(U64Max[i])

\* The input has been parsed as a version.
VersionParsed == output # NoValue

\* The result is Ok, with no patch for two parts and a patch for three.
IsVersion ==
    /\ output.tag = "Ok"
    /\ IF HasThirdPart
       THEN output.patch # None /\ Significant(output.patch[1]) = Significant(ThirdPart)
       ELSE output.patch = None
    /\ Significant(output.major) = Significant(FirstPart)
    /\ Significant(output.minor) = Significant(SecondPart)

IsVersionError(err) == output.tag = "Err" /\ output.err = err

(* C16, as the claim states it. from_str classifies its input by its parts:
   an empty first part gives Err(Empty); a missing or empty second part gives
   Err(ExpectedMinorVersion); a first, second or present third part that is
   not an unsigned integer gives Err(ParseInt); otherwise the result is Ok
   with patch = None for two parts and Some(n) for three. *)
C16_Original ==
    VersionParsed =>
       IF FirstPart = << >>
       THEN IsVersionError("Empty")
       ELSE IF ~HasSecondPart \/ SecondPart = << >>
       THEN IsVersionError("ExpectedMinorVersion")
       ELSE IF \/ ~IsUnsignedInteger(FirstPart)
               \/ ~IsUnsignedInteger(SecondPart)
               \/ HasThirdPart /\ ~IsUnsignedInteger(ThirdPart)
       THEN IsVersionError("ParseInt")
       ELSE IsVersion

(* C16, amended. An empty first part gives Err(Empty); a first part that is
   not an unsigned integer gives Err(ParseInt), whatever follows it;
   otherwise a missing or empty second part gives Err(ExpectedMinorVersion);
   otherwise a second or present third part that is not an unsigned integer,
   an empty third part included, gives Err(ParseInt); otherwise the result is
   Ok with patch = None for two parts and Some(n) for three. *)
C16_FromStrClassifies ==
    VersionParsed =>
       IF FirstPart = << >>
       THEN IsVersionError("Empty")
       ELSE IF ~IsUnsignedInteger(FirstPart)
       THEN IsVersionError("ParseInt")
       ELSE IF ~HasSecondPart \/ SecondPart = << >>
       THEN IsVersionError("ExpectedMinorVersion")
       ELSE IF \/ ~IsUnsignedInteger(SecondPart)
               \/ HasThirdPart /\ ~IsUnsignedInteger(ThirdPart)
       THEN IsVersionError("ParseInt")
       ELSE IsVersion

\* `1.1.` has been parsed: the empty third part is not an integer.
C16_Witness ==
    /\ input = << "1", ".", "1", "." >>
    /\ VersionParsed
    /\ IsVersionError("ParseInt")

----------------------------------------------------------------------------
(* The walk of one top-level name after the other, for the claims about the
   walk of a single Dep or DepFeature token. *)

\* Longest feature_names list of these walks.
MaxDepNames == 1

\* The features of the root package whose requirement lists name a dependency.
DepNameInputs ==
    { default, optdep, opt_feat_strong, opt_feat_weak, missing, undeclared }

\* A caller invokes walk_package_features with names of DepNameInputs.
DepCall ==
    /\ phase = "constructed"
    /\ \E package \in DOMAIN metadata.packages :
       \E feature_names \in SeqsUpTo(DepNameInputs, MaxDepNames) :
          Invoke(package, feature_names)

DepNext ==
    \/ DepCall
    \/ walk_package_features
    \/ walk_feature
    \/ walk_feature_loop
    \/ walk_dep
    \/ walk_dep_resolve
    \/ walk_dep_loop
    \/ walk_dep_feature
    \/ walk_dep_feature_resolve
    \/ walk_dep_feature_loop

DepSpec == Init /\ [][DepNext]_vars

\* The callback at j is visit_dep_feature.
IsVisitDepFeature(j) == IsVisit(j) /\ trace[j].what = "visit_dep_feature"

\* The dependency the callback at j names, in the package it was given.
DependencyOfVisit(j) ==
    get_dependency(PackageById(trace[j].package), trace[j].name)

(* C17, as the claim states it. visit_dep_feature is invoked only for tokens
   whose dependency is declared and whose target package is present in the
   index. *)
C17_Original ==
    \A j \in DOMAIN trace :
       IsVisitDepFeature(j)
       => /\ DependencyOfVisit(j) # None
          /\ DependencyOfVisit(j)[1].name \in DOMAIN packages_by_name

(* C17, amended. walk_dep_feature resolves the dependency before it calls
   visit_dep_feature, and the package after it: visit_dep_feature is the
   first thing walk_dep_feature does for a token whose dependency is
   declared, it is invoked for no other token, also when the target package
   is absent from the index, and a visit_missing_package of walk_dep_feature
   comes right after visit_dep_feature returned Ok(true). *)
C17_DependencyBeforePackageAfter ==
    \A j \in DOMAIN trace :
       /\ IsVisitDepFeature(j)
          => /\ j > 1
             /\ IsEnter(j - 1, {"walk_dep_feature"})
             /\ trace[j - 1].depth = trace[j].depth
             /\ DependencyAt(j - 1) # None
             /\ DependencyOfVisit(j) = DependencyAt(j - 1)
       /\ ( /\ IsEnter(j, {"walk_dep_feature"})
            /\ DependencyAt(j) # None
            /\ j + 1 <= Len(trace) )
          => IsVisitDepFeature(j + 1)
       /\ ( /\ IsVisit(j)
            /\ trace[j].what = "visit_missing_package"
            /\ j > 2
            /\ IsEnter(j - 2, {"walk_dep_feature"}) )
          => /\ IsVisitDepFeature(j - 1)
             /\ trace[j - 1].ret = OkBool(TRUE)
             /\ DependencyOfVisit(j - 1)[1].name = trace[j].name

\* visit_dep_feature(root, "o", "f", false) returned Ok(true) with the package
\* of optdep absent from the index, and visit_missing_package("o") followed.
C17_Witness ==
    /\ phase = "returned"
    /\ names_arg = << opt_feat_strong >>
    /\ optdep \notin DOMAIN packages_by_name
    /\ \E j \in DOMAIN trace :
          /\ IsVisitDepFeature(j)
          /\ trace[j].name = optdep
          /\ trace[j].ret = OkBool(TRUE)
          /\ j + 1 <= Len(trace)
          /\ trace[j + 1].what = "visit_missing_package"
          /\ trace[j + 1].name = optdep

(* C18. In walk_dep, visit_dep(package, dep_name) is called once the
   dependency is found among the package's own dependencies, whether or not
   its package is in the index; when it returns Ok(false) the token is
   finished with Ok(()) at once: no visit_missing_package, no walk of a
   feature of the dependency.  The same holds for visit_dep_feature in
   walk_dep_feature. *)
C18_DeclinedDependencyStops ==
    \A k \in DOMAIN trace :
       (IsDepEnter(k) /\ DependencyAt(k) # None /\ k + 1 <= Len(trace))
       => /\ IsCallbackOf(trace[k + 1], k, OwnCallback(k), trace[k].package,
                          trace[k].name, trace[k].dep_feature, trace[k].weak)
          /\ trace[k + 1].ret = OkBool(FALSE)
             => /\ k + 2 <= Len(trace)
                /\ IsExitOf(trace[k + 2], trace[k], Ok)

\* In one walk visit_dep_feature declined `o/x`, whose package is in the
\* index, and visit_dep declined `dep:n`, whose package is not; the walk went
\* on to the next token each time and returned Ok(()) after three callbacks.
C18_Witness ==
    /\ phase = "returned"
    /\ result = Ok
    /\ names_arg = << undeclared >>
    /\ package_arg = 1
    /\ optdep \in DOMAIN packages_by_name
    /\ Len(Callbacks) = 3
    /\ Callbacks[2].what = "visit_dep_feature"
    /\ Callbacks[2].ret = OkBool(FALSE)
    /\ Callbacks[3].what = "visit_dep"
    /\ Callbacks[3].name = renamed
    /\ Callbacks[3].ret = OkBool(FALSE)

\* The Dep token walked at k named a declared dependency, visit_dep said
\* Ok(true) and the dependency's package was found in the index.
DepResolvedAt(k) ==
    /\ IsEnter(k, {"walk_dep"})
    /\ DependencyAt(k) # None
    /\ DependencyAt(k)[1].name \in DOMAIN packages_by_name
    /\ k + 1 <= Len(trace)
    /\ trace[k + 1].ret = OkBool(TRUE)

\* The package the index holds for the dependency of the token walked at k.
DepPackageAt(k) == metadata.packages[packages_by_name[DependencyAt(k)[1].name]]

\* The positions of the calls made directly by the activation entered at k.
ChildEnterIdxs(k) ==
    { c \in (k+1)..EndIdx(k) :
        trace[c].ev = "enter" /\ trace[c].depth = trace[k].depth + 1 }

(* C19. For a Dep token whose dependency is declared, whose visit_dep
   returned Ok(true) and whose package is in the index, the walk calls
   walk_feature on the dependency's package for the names of
   dependency.features in list order, for all of them when the token's walk
   returns Ok(()); a listed name the dependency's package declares gets
   visit_feature(dep_package, name) first, one it does not declare returns
   Ok(()) without any callback. *)
C19_DepWalksManifestFeatures ==
    \A k \in DOMAIN trace :
       DepResolvedAt(k) =>
          LET children == ChildEnters(k)
              expected == DependencyAt(k)[1].features
              dep_package == DepPackageAt(k)
          IN /\ Len(children) <= Len(expected)
             /\ \A i \in DOMAIN children :
                   MatchesToken(children[i], dep_package.id, Feature(expected[i]))
             /\ (ExitIdx(k) # 0 /\ trace[ExitIdx(k)].ret = Ok)
                   => Len(children) = Len(expected)
             /\ \A c \in ChildEnterIdxs(k) :
                   c + 1 <= Len(trace) =>
                      IF trace[c].name \in DOMAIN dep_package.features
                      THEN IsCallbackOf(trace[c + 1], c, "visit_feature",
                                        dep_package.id, trace[c].name, << >>,
                                        FALSE)
                      ELSE IsExitOf(trace[c + 1], trace[c], Ok)
             /\ \A j \in (k+2)..EndIdx(k) :
                   (IsVisit(j) /\ trace[j].depth = trace[k].depth + 1)
                      => /\ trace[j].what = "visit_feature"
                         /\ trace[j].package = dep_package.id
                         /\ trace[j].name \in Range(expected)
                         /\ trace[j].name \in DOMAIN dep_package.features

\* `dep:o` was walked with optdep in the index: of its listed features g and
\* x, optdep declares g only, and the walk made visit_feature(optdep, g) and
\* no other callback on optdep.
C19_Witness ==
    /\ phase = "returned"
    /\ result = Ok
    /\ package_arg = 1
    /\ names_arg = << optdep >>
    /\ Len(Callbacks) = 3
    /\ Callbacks[2].what = "visit_dep"
    /\ Callbacks[3].what = "visit_feature"
    /\ Callbacks[3].package = "optdep"
    /\ Callbacks[3].name = extra
    /\ \E k \in DOMAIN trace : DepResolvedAt(k) /\ Len(ChildEnters(k)) = 2

----------------------------------------------------------------------------
(* The package each callback is given.                                       *)

\* A package that depends on a crate of its own name (another version of
\* itself), and is the package the index holds for that name.
SemverTrickPackage ==
    [name |-> optdep,
     id |-> "optdep",
     features |->
        (default :> Requires(<<optdep \o <<"/">> \o extra>>))
     @@ (feat :> Requires(<<>>))
     @@ (extra :> Requires(<<>>)),
     dependencies |-> << Dependency(optdep, None, <<>>) >>]

SemverTrickDocument ==
    [packages |-> <<RootPackage, BitflagsPackage, SemverTrickPackage>>]

\* The state after FeatureWalker::new over one of the documents, the one
\* with the self-named dependency among them.
AttributionInit ==
    /\ metadata \in Documents \cup { SemverTrickDocument }
    /\ packages_by_name = FeatureWalker_new(metadata)
    /\ visitor \in Visitors
    /\ features = [id \in PackageIds |-> {}]
    /\ package_arg = 0
    /\ names_arg = << >>
    /\ stack = << >>
    /\ ret = NoResult
    /\ result = NoResult
    /\ phase = "constructed"
    /\ trace = << >>
    /\ current = 1
    /\ walks = << >>
    /\ input = << >>
    /\ output = NoValue

AttributionSpec == AttributionInit /\ [][DepNext]_vars

\* The token a visit_dep or visit_dep_feature callback was made for.
TokenOfVisit(j) ==
    IF trace[j].what = "visit_dep"
    THEN Dep(trace[j].name)
    ELSE DepFeature(trace[j].name, trace[j].dep_feature, trace[j].weak)

\* Package p holds tok in one of its requirement lists.
HoldsToken(p, tok) ==
    \E n \in DOMAIN p.features : tok \in Range(p.features[n])

\* visit_dep and visit_dep_feature are given the package whose requirement
\* list holds the token, which is the package of the walk_feature that
\* walked the token.
DepCallbacksOnHolder ==
    \A j \in DOMAIN trace :
       (IsVisit(j) /\ trace[j].what \in {"visit_dep", "visit_dep_feature"})
       => /\ HoldsToken(PackageById(trace[j].package), TokenOfVisit(j))
          /\ j > 1
          /\ IsDepEnter(j - 1)
          /\ trace[j - 1].value = TokenOfVisit(j)
          /\ trace[j - 1].by = "walk_feature"
          /\ trace[j - 1].by_package = trace[j].package

\* Every walk_feature made to expand the dependency of the token walked at k,
\* and the visit_feature it makes, is on the package the index holds for the
\* dependency.
ExpansionOnDepPackage(k) ==
    \A c \in ChildEnterIdxs(k) :
       /\ trace[c].what = "walk_feature"
       /\ trace[c].package = DepPackageAt(k).id
       /\ (c + 1 <= Len(trace) /\ IsVisit(c + 1))
             => /\ trace[c + 1].what = "visit_feature"
                /\ trace[c + 1].package = DepPackageAt(k).id

\* What a collector holds under a package is that package's own: features it
\* declares and tokens of its requirement lists.
CollectedOwn ==
    \A id \in PackageIds : \A v \in features[id] :
       IF v.kind = "Feature"
       THEN v.name \in DOMAIN PackageById(id).features
       ELSE HoldsToken(PackageById(id), v)

\* A collector's walk returned Ok(()).
Collected == IsCollector(visitor) /\ phase = "returned" /\ result = Ok

(* C20, as the claim states it. visit_dep and visit_dep_feature receive the
   package whose requirement list contains the token; every visit_feature
   caused by expanding a dependency's features receives the resolved
   dependency package, never the referencing package; after a collector
   walked a resolved `dep/feat` token, the referencing package's set holds
   only what is its own and the DepFeature token, and feat is recorded under
   the dependency package. *)
C20_Original ==
    /\ DepCallbacksOnHolder
    /\ \A k \in DOMAIN trace :
          IsDepEnter(k) =>
             /\ ExpansionOnDepPackage(k)
             /\ \A c \in ChildEnterIdxs(k) : trace[c].package # trace[k].package
    /\ Collected =>
          /\ CollectedOwn
          /\ \A k \in DOMAIN trace :
                ResolvedAt(k) =>
                   /\ TokenAt(k) \in features[trace[k].package]
                   /\ Feature(trace[k].dep_feature)
                         \in features[DepPackageAt(k).id]

(* C20. visit_dep and visit_dep_feature receive the package whose requirement
   list contains the token; every visit_feature caused by expanding a
   dependency's features receives the package the index holds for the
   dependency's name, which is the referencing package when the index holds
   that package for the name; after a collector walked a resolved `dep/feat`
   token and returned Ok(()), each package's set holds only what is its own,
   the DepFeature token is in the referencing package's set, and feat is
   recorded under the dependency package exactly when that package declares
   it. *)
C20_CallbacksAttributed ==
    /\ DepCallbacksOnHolder
    /\ \A k \in DOMAIN trace : IsDepEnter(k) => ExpansionOnDepPackage(k)
    /\ Collected =>
          /\ CollectedOwn
          /\ \A k \in DOMAIN trace :
                ResolvedAt(k) =>
                   /\ TokenAt(k) \in features[trace[k].package]
                   /\ Feature(trace[k].dep_feature)
                         \in features[DepPackageAt(k).id]
                      <=> trace[k].dep_feature
                            \in DOMAIN DepPackageAt(k).features

\* The collector walked opt-feat-strong of the root with optdep in the index:
\* the root's set is its own feature and the DepFeature token, feat is under
\* optdep.
C20_Witness ==
    /\ Collected
    /\ metadata = [packages |-> <<RootPackage, BitflagsPackage, OptdepPackage>>]
    /\ package_arg = 1
    /\ names_arg = << opt_feat_strong >>
    /\ features["all"] = { Feature(opt_feat_strong),
                           DepFeature(optdep, feat, FALSE) }
    /\ Feature(feat) \in features["optdep"]
    /\ \E k \in DOMAIN trace : ResolvedAt(k) /\ ChildEnterIdxs(k) # {}

----------------------------------------------------------------------------
(* The order of a walk: walks of the root's features with lists of several
   tokens, under any visitor. *)

\* Longest feature_names list of these walks.
MaxOrderNames == 2

\* Features whose requirement lists hold two and three tokens.
OrderNameInputs == { default, missing, undeclared }

OrderCall ==
    /\ phase = "constructed"
    /\ \E package \in DOMAIN metadata.packages :
       \E feature_names \in SeqsUpTo(OrderNameInputs, MaxOrderNames) :
          Invoke(package, feature_names)

OrderNext ==
    \/ OrderCall
    \/ walk_package_features
    \/ walk_feature
    \/ walk_feature_loop
    \/ walk_dep
    \/ walk_dep_resolve
    \/ walk_dep_loop
    \/ walk_dep_feature
    \/ walk_dep_feature_resolve
    \/ walk_dep_feature_loop

OrderSpec == Init /\ [][OrderNext]_vars

\* The callbacks caused by the call entered at c: its own and those of its
\* whole expansion.
CausedBy(c) == { j \in c..EndIdx(c) : IsVisit(j) }

\* What the activation entered at k is to walk, in order: the names handed
\* to walk_package_features, resp. the requirement list of the feature.
DeclaredOrder(k) ==
    IF trace[k].what = "walk_package_features"
    THEN [i \in DOMAIN names_arg |-> Feature(names_arg[i])]
    ELSE PackageById(trace[k].package).features[trace[k].name]

\* The activation entered at k walks a list in the package it was given.
WalksList(k) ==
    \/ IsEnter(k, {"walk_package_features"})
    \/ /\ IsEnter(k, {"walk_feature"})
       /\ trace[k].name \in DOMAIN PackageById(trace[k].package).features

(* C21. The walk is depth-first, pre-order, in declaration order: the calls
   made for a feature's requirement list, and for feature_names, are made for
   its tokens in list order; every callback caused by one token, its whole
   expansion included, comes before every callback caused by a later token;
   and visit_feature for a declared feature is the first thing its walk
   does, before any callback caused by its requirement list. *)
C21_DepthFirstPreOrder ==
    \A k \in DOMAIN trace :
       WalksList(k) =>
          LET children == ChildEnters(k)
              idxs == ChildEnterIdxs(k)
              declared == DeclaredOrder(k)
          IN /\ Len(children) <= Len(declared)
             /\ \A i \in DOMAIN children :
                   MatchesToken(children[i], trace[k].package, declared[i])
             /\ \A a, b \in idxs :
                   a < b => /\ ExitIdx(a) # 0
                            /\ \A x \in CausedBy(a), y \in CausedBy(b) : x < y
             /\ (trace[k].what = "walk_feature" /\ k + 1 <= Len(trace))
                   => /\ IsCallbackOf(trace[k + 1], k, "visit_feature",
                                      trace[k].package, trace[k].name, << >>,
                                      FALSE)
                      /\ \A c \in idxs : \A y \in CausedBy(c) : k + 1 < y

\* (root, [default, undeclared]) was walked to the end: the callbacks of
\* default and its two tokens, then those of undeclared and of the two of
\* its three tokens that cause any.
C21_Witness ==
    /\ phase = "returned"
    /\ result = Ok
    /\ package_arg = 1
    /\ names_arg = << default, undeclared >>
    /\ Len(ChildEnters(1)) = 2
    /\ \E k \in DOMAIN trace :
          /\ IsEnter(k, {"walk_feature"})
          /\ trace[k].name = undeclared
          /\ Len(ChildEnters(k)) = 3
          /\ Cardinality({ c \in ChildEnterIdxs(k) : CausedBy(c) # {} }) = 2
    /\ \E k \in DOMAIN trace :
          /\ IsEnter(k, {"walk_feature"})
          /\ trace[k].name = default
          /\ Len(ChildEnters(k)) = 2

----------------------------------------------------------------------------
(* Termination.  The walk is synchronous code on one thread: once called, it
   keeps taking steps until it returns.  The expansion graph has a vertex
   for every call the walk can make (a feature of a package, a Dep or
   DepFeature token of a package) and an edge for every call made from it. *)

\* A step of the walk itself.
Step ==
    \/ walk_package_features
    \/ walk_feature
    \/ walk_feature_loop
    \/ walk_dep
    \/ walk_dep_resolve
    \/ walk_dep_loop
    \/ walk_dep_feature
    \/ walk_dep_feature_resolve
    \/ walk_dep_feature_loop

\* A root package with a feature that lists itself, and a feature that
\* enables a feature of optdep which enables it in turn.
CyclicRootPackage ==
    [name |-> root_name,
     id |-> "all",
     features |->
        (default :> Requires(<<default>>))
     @@ (optdep :> Requires(<<optdep \o <<"/">> \o feat>>)),
     dependencies |-> << Dependency(optdep, None, <<>>) >>]

CyclicOptdepPackage ==
    [name |-> optdep,
     id |-> "optdep",
     features |->
        (feat :> Requires(<<root_name \o <<"/">> \o optdep>>)),
     dependencies |-> << Dependency(root_name, None, <<>>) >>]

CyclicDocument == [packages |-> <<CyclicRootPackage, CyclicOptdepPackage>>]

\* The state after FeatureWalker::new over a document of the tests or the
\* cyclic one.
TerminationInit ==
    /\ metadata \in Documents \cup { CyclicDocument }
    /\ packages_by_name = FeatureWalker_new(metadata)
    /\ visitor \in Visitors
    /\ features = [id \in PackageIds |-> {}]
    /\ package_arg = 0
    /\ names_arg = << >>
    /\ stack = << >>
    /\ ret = NoResult
    /\ result = NoResult
    /\ phase = "constructed"
    /\ trace = << >>
    /\ current = 1
    /\ walks = << >>
    /\ input = << >>
    /\ output = NoValue

TerminationSpec == TerminationInit /\ [][DepNext]_vars /\ WF_vars(Step)

Maximum(S) == IF S = {} THEN 0 ELSE CHOOSE x \in S : \A y \in S : y <= x

\* The feature names a resolved Dep or DepFeature token walks on the
\* package of its dependency.
NamesWalkedOn(tok, dependency) ==
    IF tok.kind = "Dep"
    THEN dependency.features
    ELSE << tok.dep_feature >> \o ManifestFeatures(tok.weak, dependency)

RECURSIVE FeatureDepth(_, _, _)
RECURSIVE TokenDepth(_, _, _)

\* The number of vertices on the longest path of the expansion graph from
\* feature f of package p (a position in metadata.packages), as far as
\* paths of n vertices.
FeatureDepth(p, f, n) ==
    IF n = 0
    THEN 0
    ELSE LET package == metadata.packages[p]
         IN IF f \notin DOMAIN package.features
            THEN 1
            ELSE 1 + Maximum({ TokenDepth(p, package.features[f][i], n - 1) :
                                 i \in DOMAIN package.features[f] })

\* The same from a token of a requirement list of package p: a plain feature
\* is the feature's own vertex, a dependency hop is a vertex of its own.
TokenDepth(p, tok, n) ==
    IF tok.kind = "Feature"
    THEN FeatureDepth(p, tok.name, n)
    ELSE IF n = 0
         THEN 0
         ELSE LET dependency == get_dependency(metadata.packages[p], tok.name)
              IN IF dependency = None
                    \/ dependency[1].name \notin DOMAIN packages_by_name
                 THEN 1
                 ELSE LET names == NamesWalkedOn(tok, dependency[1])
                      IN 1 + Maximum(
                               { FeatureDepth(packages_by_name[dependency[1].name],
                                              names[i], n - 1) :
                                   i \in DOMAIN names })

\* The longest path from the starting names of the walk called.
LongestPath(n) ==
    Maximum({ FeatureDepth(package_arg, names_arg[i], n) : i \in DOMAIN names_arg })

\* The graph reachable from the starting names of the walk called is
\* acyclic: no path in it is as long as the model follows.
Acyclic == phase # "constructed" => 1 + LongestPath(MaxDepth) <= MaxDepth

\* The deepest nesting of calls so far, walk_package_features not counted.
DeepestCall == Maximum({ trace[k].depth : k \in DOMAIN trace }) - 1

(* C22. When the expansion graph reachable from the starting names is finite
   and acyclic (and every callback returns), walk_package_features, once
   called, eventually returns, and the nesting of the calls it makes is
   never deeper than the longest path of that graph, a dependency hop
   counting as one step of the path. *)
C22_AcyclicWalkReturns ==
    /\ [](Acyclic => (phase = "walking" =>
                          Len(stack) - 1 <= LongestPath(MaxDepth)))
    /\ (phase = "walking" /\ Acyclic) ~> (phase = "returned")

\* The walk of opt-feat-strong with optdep in the index has returned after
\* going as deep as the longest path: s, optdep/f, f of optdep, x of optdep.
C22_Witness ==
    /\ phase = "returned"
    /\ Acyclic
    /\ package_arg = 1
    /\ names_arg = << opt_feat_strong >>
    /\ LongestPath(MaxDepth) = 4
    /\ DeepestCall = 4

\* Every callback so far told the walk to go on.
AllContinued ==
    \A k \in DOMAIN trace : IsVisit(k) => trace[k].ret \in { Ok, OkBool(TRUE) }

\* How often visit_feature(package, name) was invoked so far.
VisitsOf(package_id, name) ==
    Cardinality({ k \in DOMAIN trace :
                    /\ IsVisit(k)
                    /\ trace[k].what = "visit_feature"
                    /\ trace[k].package = package_id
                    /\ trace[k].name = name })

\* Some visit_feature(package, feature) was invoked more than once.
VisitRepeated ==
    \E k \in DOMAIN trace :
       /\ IsVisit(k)
       /\ trace[k].what = "visit_feature"
       /\ VisitsOf(trace[k].package, trace[k].name) >= 2

(* C23. When a cycle is reachable from the starting names and every callback
   answers Ok(true), the walk never returns and reports no error: a walk that
   returned with all its callbacks answered so went over an acyclic graph;
   an always-continuing walk over a cycle gets as deep as the model follows
   it, whatever that depth, and by then has invoked the same
   visit_feature(package, feature) more than once. *)
C23_CyclicWalkNeverReturns ==
    /\ []((phase \in {"returned", "panicked"} /\ AllContinued) => Acyclic)
    /\ []((~Acyclic /\ AllContinued /\ Len(stack) = MaxDepth) => VisitRepeated)
    /\ (~Acyclic /\ visitor = AlwaysContinues) ~> (Len(stack) = MaxDepth)

\* The walk of the feature that optdep enables back is as deep as the model
\* follows, and visit_feature(root, optdep) was invoked twice.
C23_Witness ==
    /\ metadata = CyclicDocument
    /\ visitor = AlwaysContinues
    /\ package_arg = 1
    /\ names_arg = << optdep >>
    /\ Len(stack) = MaxDepth
    /\ phase = "walking"
    /\ VisitsOf("all", optdep) = 2
    /\ VisitsOf("optdep", feat) >= 1

----------------------------------------------------------------------------
(* The index over documents in which two packages share a name. *)

\* Another version of optdep: it declares feat, and not extra.
OtherOptdepPackage ==
    [name |-> optdep,
     id |-> "bitflags",
     features |-> (feat :> Requires(<<>>)),
     dependencies |-> <<>>]

\* Two versions of optdep in one resolved graph, in either order.
SharedNameDocuments ==
    { [packages |-> <<RootPackage, OtherOptdepPackage, OptdepPackage>>],
      [packages |-> <<RootPackage, OptdepPackage, OtherOptdepPackage>>] }

IndexInit ==
    /\ metadata \in Documents \cup SharedNameDocuments
    /\ packages_by_name = FeatureWalker_new(metadata)
    /\ visitor \in Visitors
    /\ features = [id \in PackageIds |-> {}]
    /\ package_arg = 0
    /\ names_arg = << >>
    /\ stack = << >>
    /\ ret = NoResult
    /\ result = NoResult
    /\ phase = "constructed"
    /\ trace = << >>
    /\ current = 1
    /\ walks = << >>
    /\ input = << >>
    /\ output = NoValue

IndexSpec == IndexInit /\ [][DepNext]_vars

\* The positions in metadata.packages of the packages named n.
Named(n) == { i \in DOMAIN metadata.packages : metadata.packages[i].name = n }

(* C24. After FeatureWalker::new(metadata) the index holds exactly one entry
   per distinct package name of metadata.packages, each a package of that
   name; of several packages of one name it holds the last in
   metadata.packages order, and every dependency on that name is walked on
   that package. *)
C24_IndexKeepsLastOfName ==
    /\ DOMAIN packages_by_name
          = { metadata.packages[i].name : i \in DOMAIN metadata.packages }
    /\ \A n \in DOMAIN packages_by_name :
          /\ packages_by_name[n] \in Named(n)
          /\ \A i \in Named(n) : i <= packages_by_name[n]
    /\ \A k \in DOMAIN trace :
          (IsDepEnter(k) /\ DependencyAt(k) # None) =>
             \A c \in ChildEnterIdxs(k) :
                /\ DependencyAt(k)[1].name \in DOMAIN packages_by_name
                /\ trace[c].package
                     = metadata.packages[
                          Maximum(Named(DependencyAt(k)[1].name))].id

\* `optdep/feat` was walked from the root with the other version of optdep
\* last in the document: feat was visited on it, and nothing on the first.
C24_Witness ==
    /\ metadata = [packages |-> <<RootPackage, OptdepPackage, OtherOptdepPackage>>]
    /\ Cardinality(Named(optdep)) = 2
    /\ packages_by_name[optdep] = 3
    /\ phase = "returned"
    /\ package_arg = 1
    /\ names_arg = << opt_feat_strong >>
    /\ \E k \in DOMAIN trace :
          /\ IsVisit(k)
          /\ trace[k].what = "visit_feature"
          /\ trace[k].package = "bitflags"
          /\ trace[k].name = feat
    /\ \A k \in DOMAIN trace : trace[k].package # "optdep"

----------------------------------------------------------------------------
(* Renamed dependencies: crate q goes by the name n in the root's manifest,
   and another package is called n. *)

RenamingRootPackage ==
    [name |-> root_name,
     id |-> "all",
     features |->
        (default :> Requires(<<DepPrefix \o renamed,
                               renamed \o <<"/">> \o feat,
                               DepPrefix \o crate_q>>)),
     dependencies |-> << Dependency(crate_q, Some(renamed), <<extra>>) >>]

RenamedCratePackage ==
    [name |-> crate_q,
     id |-> "optdep",
     features |-> (feat :> Requires(<<>>)) @@ (extra :> Requires(<<>>)),
     dependencies |-> <<>>]

\* A package whose name is the local name of the root's dependency.
NamesakePackage ==
    [name |-> renamed,
     id |-> "bitflags",
     features |-> (feat :> Requires(<<>>)) @@ (extra :> Requires(<<>>)),
     dependencies |-> <<>>]

\* The renamed crate absent from the document, and present.
RenameDocuments ==
    { [packages |-> <<RenamingRootPackage, NamesakePackage>>],
      [packages |-> <<RenamingRootPackage, NamesakePackage,
                      RenamedCratePackage>>] }

RenameInit ==
    /\ metadata \in Documents \cup RenameDocuments
    /\ packages_by_name = FeatureWalker_new(metadata)
    /\ visitor \in Visitors
    /\ features = [id \in PackageIds |-> {}]
    /\ package_arg = 0
    /\ names_arg = << >>
    /\ stack = << >>
    /\ ret = NoResult
    /\ result = NoResult
    /\ phase = "constructed"
    /\ trace = << >>
    /\ current = 1
    /\ walks = << >>
    /\ input = << >>
    /\ output = NoValue

RenameSpec == RenameInit /\ [][DepNext]_vars

\* The renamed dependencies of the package walked at k that go by the name
\* of the token walked there.
RenamedAs(k) ==
    LET deps == PackageById(trace[k].package).dependencies
    IN { i \in DOMAIN deps : deps[i].rename = Some(trace[k].name)
                              /\ deps[i].name # trace[k].name }

\* No dependency of the package walked at k goes by the token's name.
NotDeclaredAt(k) ==
    LET deps == PackageById(trace[k].package).dependencies
    IN \A i \in DOMAIN deps :
          /\ deps[i].rename # Some(trace[k].name)
          /\ deps[i].rename = None => deps[i].name # trace[k].name

(* C25. For a dependency renamed from n to r, a token `dep:r` or `r/feat` is
   resolved against the package's own dependencies by r and the visitor
   receives r in visit_dep / visit_dep_feature; the package is looked up in
   the index by n: the dependency's features are walked on the package named
   n, and visit_missing_package, when called, receives n.  A token that
   names no dependency by its local name is a missing dependency. *)
C25_RenamedDependency ==
    /\ \A k \in DOMAIN trace :
          (IsDepEnter(k) /\ RenamedAs(k) # {} /\ k + 1 <= Len(trace)) =>
             LET deps == PackageById(trace[k].package).dependencies
                 n == deps[CHOOSE i \in RenamedAs(k) :
                             \A j \in RenamedAs(k) : i <= j].name
             IN /\ IsCallbackOf(trace[k + 1], k, OwnCallback(k),
                                trace[k].package, trace[k].name,
                                trace[k].dep_feature, trace[k].weak)
                /\ \A c \in ChildEnterIdxs(k) :
                      /\ n \in DOMAIN packages_by_name
                      /\ PackageById(trace[c].package).name = n
                /\ \A j \in (k + 2)..EndIdx(k) :
                      (IsVisit(j) /\ trace[j].depth = trace[k].depth)
                      => /\ trace[j].what = "visit_missing_package"
                         /\ trace[j].name = n
                         /\ n \notin DOMAIN packages_by_name
                /\ (k + 2 <= Len(trace) /\ trace[k + 1].ret = OkBool(TRUE)
                      /\ n \notin DOMAIN packages_by_name)
                      => IsVisit(k + 2)
    /\ \A k \in DOMAIN trace :
          (IsDepEnter(k) /\ NotDeclaredAt(k) /\ k + 1 <= Len(trace)) =>
             /\ IsVisit(k + 1)
             /\ trace[k + 1].what = "visit_missing_dependency"
             /\ trace[k + 1].name = trace[k].name

\* `dep:n`, `n/f` and `dep:q` were walked with crate q in the document: the
\* visitor got n in visit_dep and visit_dep_feature, the features were
\* visited on the package named q, and q itself is no dependency's name.
C25_Witness ==
    /\ metadata = [packages |-> <<RenamingRootPackage, NamesakePackage,
                                  RenamedCratePackage>>]
    /\ phase = "returned"
    /\ result = Ok
    /\ package_arg = 1
    /\ names_arg = << default >>
    /\ Len(Callbacks) = 7
    /\ Callbacks[2].what = "visit_dep" /\ Callbacks[2].name = renamed
    /\ Callbacks[3].what = "visit_feature" /\ Callbacks[3].package = "optdep"
    /\ Callbacks[4].what = "visit_dep_feature" /\ Callbacks[4].name = renamed
    /\ Callbacks[5].package = "optdep" /\ Callbacks[5].name = feat
    /\ Callbacks[7].what = "visit_missing_dependency"
    /\ Callbacks[7].name = crate_q

----------------------------------------------------------------------------
(* The assertions of walk_dep and walk_dep_feature (visit.rs 154, 190, 196). *)

\* A root package whose feature `u` requires token, and whose manifest
\* requests feature_names on the dependency optdep.
AssertingRootPackage(token, feature_names) ==
    [name |-> root_name,
     id |-> "all",
     features |->
        (default :> Requires(<<DepPrefix \o optdep>>))
     @@ (opt_feat_strong :> Requires(<<optdep \o <<"/">> \o feat>>))
     @@ (opt_feat_weak :> Requires(<<optdep \o <<"?", "/">> \o feat>>))
     @@ (undeclared :> Requires(<<token>>)),
     dependencies |-> << Dependency(optdep, None, feature_names) >>]

\* Documents with one string that is not a bare feature name where the
\* walker asserts one: the dep_feature of a token, or an entry of
\* dependency.features.
AssertingDocuments ==
    { [packages |-> <<AssertingRootPackage(d[1], d[2]), OptdepPackage>>] :
        d \in { << optdep \o <<"/">> \o DepPrefix \o unknown, <<extra>> >>,
                << optdep \o <<"/">> \o feat \o <<"/">> \o extra, <<extra>> >>,
                << optdep \o <<"/">> \o feat, <<extra, DepPrefix \o unknown>> >>,
                << optdep \o <<"/">> \o feat,
                   <<optdep \o <<"/">> \o feat, extra>> >> } }

AssertingInit ==
    /\ metadata \in Documents \cup AssertingDocuments
    /\ packages_by_name = FeatureWalker_new(metadata)
    /\ visitor \in Visitors
    /\ features = [id \in PackageIds |-> {}]
    /\ package_arg = 0
    /\ names_arg = << >>
    /\ stack = << >>
    /\ ret = NoResult
    /\ result = NoResult
    /\ phase = "constructed"
    /\ trace = << >>
    /\ current = 1
    /\ walks = << >>
    /\ input = << >>
    /\ output = NoValue

AssertingSpec == AssertingInit /\ [][DepNext]_vars

\* s is a bare feature name: no `/`, no `dep:` prefix.
BareName(s) == Find(s, "/") = 0 /\ ~StartsWith(s, DepPrefix)

\* The entries of dependency.features the loop of the top activation goes
\* through: none for a weak reference.
EntriesOfTop ==
    IF Top.fn = "walk_dep_feature" /\ Top.weak
    THEN << >>
    ELSE Top.dependency.features

\* The top activation is at an entry of dependency.features that is not a
\* bare feature name.
ReachesMalformedEntry ==
    /\ phase = "walking"
    /\ stack # << >>
    /\ Top.fn \in { "walk_dep", "walk_dep_feature" }
    /\ Top.pc = "loop"
    /\ ~Propagates(ret)
    /\ Top.i <= Len(EntriesOfTop)
    /\ ~BareName(EntriesOfTop[Top.i])

(* C26. An entry of a resolved dependency's features list that is not a bare
   feature name makes the walk fail by assertion at the moment the entry is
   reached: the step taken there is the crash, with no callback and no
   result; nothing is ever dispatched from walk_dep or walk_dep_feature as a
   Dep or DepFeature token, and a crashed walk_package_features has returned
   neither Ok nor Err. *)
C26_MalformedEntryCrashes ==
    /\ [][ReachesMalformedEntry
            => /\ phase' = "panicked"
               /\ trace' = trace
               /\ features' = features
               /\ result' = NoResult]_vars
    /\ [](phase = "panicked" => result = NoResult /\ stack = << >>)
    /\ [](\A k \in DOMAIN trace :
            (trace[k].ev = "enter"
               /\ trace[k].by \in { "walk_dep", "walk_dep_feature" })
            => /\ trace[k].what = "walk_feature"
               /\ trace[k].value.kind = "Feature")

\* `dep:o` was walked with `dep:x` second in the dependency's features: the
\* first entry was visited on optdep, then the walk crashed.
C26_Witness ==
    /\ phase = "panicked"
    /\ result = NoResult
    /\ names_arg = << default >>
    /\ PackageById("all").dependencies[1].features
          = << extra, DepPrefix \o unknown >>
    /\ Len(Callbacks) = 3
    /\ Callbacks[3].what = "visit_feature"
    /\ Callbacks[3].package = "optdep"
    /\ Callbacks[3].name = extra
    /\ trace[Len(trace)].ev = "exit"
    /\ trace[Len(trace)].what = "walk_feature"

\* The number of `/` in s.
Slashes(s) == Cardinality({ i \in DOMAIN s : s[i] = "/" })

\* A requirement token as Package.features holds it came from a non-empty
\* string with at most one `/`.
AtMostOneSlash(feature_value) ==
    /\ feature_value.kind = "DepFeature" \/ feature_value.name # << >>
    /\ Slashes(feature_value.name) = 0
    /\ Slashes(feature_value.dep_feature) = 0

\* Every requirement token is non-empty with at most one `/`, and every
\* entry of every dependency's features list is a bare feature name.
WellFormed ==
    \A i \in DOMAIN metadata.packages :
       LET package == metadata.packages[i]
       IN /\ \A f \in DOMAIN package.features :
                \A t \in DOMAIN package.features[f] :
                   AtMostOneSlash(package.features[f][t])
          /\ \A d \in DOMAIN package.dependencies :
                \A e \in DOMAIN package.dependencies[d].features :
                   BareName(package.dependencies[d].features[e])

\* The dep_feature of every DepFeature token is a bare feature name.
BareDepFeatures ==
    \A i \in DOMAIN metadata.packages :
       LET package == metadata.packages[i]
       IN \A f \in DOMAIN package.features :
             \A t \in DOMAIN package.features[f] :
                package.features[f][t].kind = "DepFeature"
                => BareName(package.features[f][t].dep_feature)

----------------------------------------------------------------------------
(* Missing dependencies and packages that the visitor lets pass. *)

\* The callback at j reported a missing dependency or package and returned
\* Ok(()).
MissingPassedAt(j) ==
    /\ IsVisit(j)
    /\ trace[j].what \in { "visit_missing_dependency", "visit_missing_package" }
    /\ trace[j].ret = Ok

\* The entry of the activation that made the callback at j.
CallerOf(j) ==
    CHOOSE k \in 1..j :
       /\ trace[k].ev = "enter" /\ trace[k].depth = trace[j].depth
       /\ \A k2 \in (k + 1)..j :
             ~(trace[k2].ev = "enter" /\ trace[k2].depth = trace[j].depth)

\* The entry of the activation that called the one entered at k.
ParentOf(k) ==
    CHOOSE p \in 1..k :
       /\ trace[p].ev = "enter" /\ trace[p].depth = trace[k].depth - 1
       /\ \A p2 \in (p + 1)..k :
             ~(trace[p2].ev = "enter" /\ trace[p2].depth = trace[k].depth - 1)

\* The activation entered at k walked the whole of its list.
WalkedWhole(k) == Len(ChildEnters(k)) = Len(DeclaredOrder(k))

(* C28. When visit_missing_dependency or visit_missing_package returns
   Ok(()), the walk continues: the token's walk returns Ok(()) at once, the
   next thing the walk does is the call for the next token of the same
   requirement list, or the Ok(()) return of that list's walk when the
   token was its last; and a walk that returned without any callback
   failing returned Ok(()), having walked every name of feature_names and
   every token of every feature whose visit_feature returned Ok(true). *)
C28_MissingDoesNotStopTheWalk ==
    /\ \A j \in DOMAIN trace :
          MissingPassedAt(j) =>
             LET k == CallerOf(j)
                 p == ParentOf(k)
                 declared == DeclaredOrder(p)
                 n == Cardinality({ c \in ChildEnterIdxs(p) : c <= k })
             IN /\ WalksList(p)
                /\ j + 1 <= Len(trace) => IsExitOf(trace[j + 1], trace[k], Ok)
                /\ j + 2 <= Len(trace) =>
                      IF n < Len(declared)
                      THEN /\ trace[j + 2].ev = "enter"
                           /\ trace[j + 2].depth = trace[k].depth
                           /\ MatchesToken(trace[j + 2], trace[p].package,
                                           declared[n + 1])
                      ELSE IsExitOf(trace[j + 2], trace[p], Ok)
    /\ (phase = "returned" /\ ErrVisits = {}) =>
          /\ result = Ok
          /\ \A k \in DOMAIN trace :
                (/\ WalksList(k)
                 /\ \/ trace[k].what = "walk_package_features"
                    \/ trace[k + 1].ret = OkBool(TRUE))
                => WalkedWhole(k)

\* (root, [missing, undeclared]) was walked to the end with a visitor that
\* lets the missing pass: two missing dependencies, then feat1; then the
\* last feature's dependency feature, visit_dep and the missing package.
C28_Witness ==
    /\ phase = "returned"
    /\ result = Ok
    /\ package_arg = 1
    /\ names_arg = << missing, undeclared >>
    /\ Cardinality({ j \in DOMAIN trace :
                       MissingPassedAt(j)
                       /\ trace[j].what = "visit_missing_dependency" }) = 2
    /\ Cardinality({ j \in DOMAIN trace :
                       MissingPassedAt(j)
                       /\ trace[j].what = "visit_missing_package" }) >= 1
    /\ \E j \in DOMAIN trace :
          /\ MissingPassedAt(j)
          /\ j + 3 <= Len(trace)
          /\ IsVisit(j + 3)
          /\ trace[j + 3].what = "visit_feature"
          /\ trace[j + 3].name = feat1

----------------------------------------------------------------------------
(* What a recording visitor ends up with. *)

\* A root package whose two features reach optdep's features along several
\* paths.
DiamondRootPackage ==
    [name |-> root_name,
     id |-> "all",
     features |->
        (default :> Requires(<<missing, optdep \o <<"/">> \o feat, unknown>>))
     @@ (missing :> Requires(<<optdep \o <<"/">> \o extra,
                               DepPrefix \o optdep,
                               DepPrefix \o crate_z,
                               optdep \o <<"?", "/">> \o feat>>)),
     dependencies |-> << Dependency(optdep, None, <<extra>>) >>]

DiamondOptdepPackage ==
    [name |-> optdep,
     id |-> "optdep",
     features |-> (feat :> Requires(<<extra>>)) @@ (extra :> Requires(<<>>)),
     dependencies |-> <<>>]

\* A root package and a dependency that refer to each other: from `default`
\* the walk comes back to the root's `missing` and ends, from `undeclared`
\* it comes back to `undeclared`.
MutualRootPackage ==
    [name |-> root_name,
     id |-> "all",
     features |->
        (default :> Requires(<<optdep \o <<"/">> \o feat>>))
     @@ (missing :> Requires(<<optdep \o <<"/">> \o extra>>))
     @@ (undeclared :> Requires(<<optdep \o <<"/">> \o unknown, missing>>)),
     dependencies |-> << Dependency(optdep, None, <<>>) >>]

MutualOptdepPackage ==
    [name |-> optdep,
     id |-> "optdep",
     features |->
        (feat :> Requires(<<root_name \o <<"/">> \o missing>>))
     @@ (extra :> Requires(<<>>))
     @@ (unknown :> Requires(<<root_name \o <<"/">> \o undeclared, extra>>)),
     dependencies |-> << Dependency(root_name, None, <<>>) >>]

CollectDocuments ==
    { [packages |-> <<DiamondRootPackage, DiamondOptdepPackage>>],
      [packages |-> <<DiamondRootPackage>>],
      [packages |-> <<MutualRootPackage, MutualOptdepPackage>>] }

CollectInit ==
    /\ metadata \in CollectDocuments
    /\ packages_by_name = FeatureWalker_new(metadata)
    /\ visitor \in { v \in Visitors : IsCollector(v) } \cup { VisitOnce }
    /\ features = [id \in PackageIds |-> {}]
    /\ package_arg = 0
    /\ names_arg = << >>
    /\ stack = << >>
    /\ ret = NoResult
    /\ result = NoResult
    /\ phase = "constructed"
    /\ trace = << >>
    /\ current = 1
    /\ walks = << >>
    /\ input = << >>
    /\ output = NoValue

\* Every call of the walker is to return to its caller: a walk that can take
\* a step takes one.
CollectSpec == CollectInit /\ [][OrderNext]_vars /\ WF_vars(Step)

\* The package walk_package_features was called with.
WalkedPackage == metadata.packages[package_arg]

\* The crate names that the dependencies of the packages named in S lead to,
\* S included.
RECURSIVE DependencyClosure(_)
DependencyClosure(S) ==
    LET more == UNION { { package.dependencies[d].name :
                            d \in DOMAIN package.dependencies } :
                        package \in { q \in Range(metadata.packages) :
                                        q.name \in S } }
    IN IF more \subseteq S THEN S ELSE DependencyClosure(S \cup more)

\* No chain of dependencies leads from the walked package back to it.
NoChainBack ==
    WalkedPackage.name
       \notin DependencyClosure({ WalkedPackage.dependencies[d].name :
                                    d \in DOMAIN WalkedPackage.dependencies })

\* The declared features of the walked package that the names of
\* feature_names reach through plain feature tokens.
ReachableDeclared ==
    ReachableFeatures(WalkedPackage, Range(names_arg))
       \cap DOMAIN WalkedPackage.features

\* The reference set: those features, and the Dep and DepFeature tokens of
\* their requirement lists that name a dependency the package declares.
ReferenceSet ==
    { Feature(f) : f \in ReachableDeclared }
    \cup { tok \in UNION { Range(WalkedPackage.features[f]) :
                              f \in ReachableDeclared } :
             /\ tok.kind \in { "Dep", "DepFeature" }
             /\ \E d \in DOMAIN WalkedPackage.dependencies :
                   LocalName(WalkedPackage.dependencies[d]) = tok.name }

(* C29. With the recording visitor that always continues, after
   walk_package_features(pkg, names) has returned on an acyclic graph in
   which no dependency chain leads back to pkg, the set recorded for pkg is
   the reference set: the declared features of pkg reachable from names
   through plain feature tokens, and the Dep and DepFeature tokens of their
   requirement lists whose dependency pkg declares; after a walk of all keys
   of pkg.features every declared feature of pkg is recorded. *)
C29_RecordedIsReference ==
    (visitor = AlwaysContinues /\ phase = "returned") =>
       /\ (Acyclic /\ NoChainBack)
             => features[WalkedPackage.id] = ReferenceSet
       /\ DOMAIN WalkedPackage.features \subseteq Range(names_arg)
             => { Feature(f) : f \in DOMAIN WalkedPackage.features }
                   \subseteq features[WalkedPackage.id]

\* (root, [default]) was walked over the diamond: default reaches missing,
\* and both, with the four tokens on the declared optdep, are recorded.
C29_Witness ==
    /\ visitor = AlwaysContinues
    /\ phase = "returned"
    /\ Acyclic
    /\ NoChainBack
    /\ Len(metadata.packages) = 2
    /\ package_arg = 1
    /\ names_arg = << default >>
    /\ features["all"] = ReferenceSet
    /\ Cardinality(features["all"]) = 6

----------------------------------------------------------------------------
(* Paths of the expansion graph, and a visitor that cuts them. *)

RECURSIVE FeaturePaths(_, _, _, _, _)
RECURSIVE ListPaths(_, _, _, _, _, _)
RECURSIVE NamePaths(_, _, _, _, _, _)

\* The number of paths of the expansion graph from feature f of package p (a
\* position in metadata.packages) to feature tf of package tp, among the
\* paths of at most n vertices.
FeaturePaths(p, f, tp, tf, n) ==
    IF n = 0 \/ f \notin DOMAIN metadata.packages[p].features
    THEN 0
    ELSE (IF p = tp /\ f = tf THEN 1 ELSE 0)
         + ListPaths(p, metadata.packages[p].features[f], 1, tp, tf, n - 1)

\* The same from the tokens i, i+1, ... of a requirement list of package p.
ListPaths(p, tokens, i, tp, tf, n) ==
    IF i > Len(tokens)
    THEN 0
    ELSE LET tok == tokens[i]
             dependency == get_dependency(metadata.packages[p], tok.name)
             here ==
                IF tok.kind = "Feature"
                THEN FeaturePaths(p, tok.name, tp, tf, n)
                ELSE IF n = 0 \/ dependency = None
                        \/ dependency[1].name \notin DOMAIN packages_by_name
                     THEN 0
                     ELSE NamePaths(packages_by_name[dependency[1].name],
                                    NamesWalkedOn(tok, dependency[1]), 1,
                                    tp, tf, n - 1)
         IN here + ListPaths(p, tokens, i + 1, tp, tf, n)

\* The same from the feature names i, i+1, ... of a list walked on package p.
NamePaths(p, names, i, tp, tf, n) ==
    IF i > Len(names)
    THEN 0
    ELSE FeaturePaths(p, names[i], tp, tf, n)
         + NamePaths(p, names, i + 1, tp, tf, n)

\* The (package, feature) pairs reachable from the pairs of S, a package
\* being a position in metadata.packages.
RECURSIVE ReachablePairs(_)
ReachablePairs(S) ==
    LET declared == { x \in S :
                        x[2] \in DOMAIN metadata.packages[x[1]].features }
        Next1(x) ==
           UNION { LET tok == metadata.packages[x[1]].features[x[2]][i]
                       dependency == get_dependency(metadata.packages[x[1]],
                                                    tok.name)
                   IN IF tok.kind = "Feature"
                      THEN { << x[1], tok.name >> }
                      ELSE IF dependency = None
                              \/ dependency[1].name
                                    \notin DOMAIN packages_by_name
                           THEN {}
                           ELSE { << packages_by_name[dependency[1].name], e >> :
                                    e \in Range(NamesWalkedOn(tok,
                                                              dependency[1])) }
                   : i \in DOMAIN metadata.packages[x[1]].features[x[2]] }
        more == UNION { Next1(x) : x \in declared }
    IN IF more \subseteq S THEN S ELSE ReachablePairs(S \cup more)

\* The declared pairs reachable from the names the walk was called with.
ReachableDeclaredPairs ==
    { x \in ReachablePairs({ << package_arg, names_arg[i] >> :
                                i \in DOMAIN names_arg }) :
        x[2] \in DOMAIN metadata.packages[x[1]].features }

\* The positions of the visit_feature callbacks for feature tf of the
\* package at position tp, and those of them that answered Ok(true).
FeatureVisits(tp, tf) ==
    { k \in DOMAIN trace :
        /\ IsVisit(k)
        /\ trace[k].what = "visit_feature"
        /\ trace[k].package = metadata.packages[tp].id
        /\ trace[k].name = tf }

Expansions(tp, tf) ==
    { k \in FeatureVisits(tp, tf) : trace[k].ret = OkBool(TRUE) }

\* All declared pairs of the document.
DeclaredPairs ==
    UNION { { << p, f >> : f \in DOMAIN metadata.packages[p].features } :
              p \in DOMAIN metadata.packages }

(* C30. The walker never deduplicates: with the always-continue visitor on
   an acyclic graph a returned walk has invoked visit_feature(package, f)
   once per path from a starting name to (package, f), so a feature
   reachable through k paths is visited k times.  With a visitor that
   answers Ok(false) for every (package, feature) pair it has already seen,
   no pair is expanded twice, a returned walk has expanded each declared
   reachable pair exactly once and no other, and the walk returns, on a
   cyclic graph too. *)
C30_NeverDeduplicates ==
    /\ []((visitor = AlwaysContinues /\ phase = "returned" /\ Acyclic) =>
            \A x \in DeclaredPairs :
               Cardinality(FeatureVisits(x[1], x[2]))
                  = NamePaths(package_arg, names_arg, 1, x[1], x[2], MaxDepth))
    /\ [](visitor = VisitOnce =>
            /\ \A x \in DeclaredPairs : Cardinality(Expansions(x[1], x[2])) <= 1
            /\ phase = "returned" =>
                  \A x \in DeclaredPairs :
                     Cardinality(Expansions(x[1], x[2]))
                        = IF x \in ReachableDeclaredPairs THEN 1 ELSE 0)
    /\ (visitor = VisitOnce /\ phase = "walking") ~> (phase = "returned")

\* (root, [default, missing]) was walked over the diamond with the
\* always-continue visitor: `extra` of optdep was visited once for each of
\* its paths, more than once for several kinds of them.
C30_Witness ==
    /\ visitor = AlwaysContinues
    /\ phase = "returned"
    /\ Acyclic
    /\ Len(metadata.packages) = 2
    /\ package_arg = 1
    /\ names_arg = << default, missing >>
    /\ Cardinality(FeatureVisits(2, extra)) = 10
    /\ Cardinality(FeatureVisits(1, missing)) = 2

====
